---- MODULE Spec2Model ----
(***************************************************************************)
(* Model of the resilient fetch pipeline of the anime backend:             *)
(*   src/src/http/rateLimiter.ts    per-host token bucket (limit, reset)   *)
(*   src/src/http/scrapeMetrics.ts  health metrics, cookie jar, user-agent *)
(*                                  rotation and fetchResponse             *)
(*   src/src/http/errors.ts         ScraperError / FetchFailedError        *)
(*                                                                         *)
(* Time is the value of Date.now() in milliseconds.  Tokens are kept in    *)
(* fixed point, OneToken units per token, so that the refill               *)
(* (now - last) / 1000 * rps is exact for the rates used.                  *)
(***************************************************************************)
EXTENDS Integers, Sequences, FiniteSets, TLC

\* ------------------------------------------------------------------ bounds
\* The clock advances in steps of TickMs and stops after MaxTicks steps.
MaxTicks == 5
TickMs == 500

\* ------------------------------------------------------- finite maps (Map)
SetMap(m, k, v) == [x \in (DOMAIN m) \cup {k} |-> IF x = k THEN v ELSE m[x]]
DelMap(m, k) == [x \in (DOMAIN m) \ {k} |-> m[x]]
EmptyMap == [x \in {} |-> 0]
Min(a, b) == IF a <= b THEN a ELSE b

\* ------------------------------------------------------------ the callers
Hosts == {"h1", "h2"}
\* direct callers of limit() and the fetchResponse calls
Callers == {"a", "b"}
Calls == {"c1"}
Clients == Callers \cup Calls

\* ========================================================== rateLimiter.ts
\* one token, in fixed-point units
OneToken == 1000000
\* rps = 0.5 tokens per second, in fixed-point units per millisecond
DefaultRps == 500
DefaultBurst == 2
\* The rate options a caller passes for a host, fixed per host: the defaults
\* for h1, rps = 1 and burst = 1 for h2.
RpsOf(h) == IF h = "h1" THEN DefaultRps ELSE 2 * DefaultRps
BurstOf(h) == IF h = "h1" THEN DefaultBurst ELSE 1

VARIABLES
  now,        \* Date.now()
  buckets,    \* rateLimiter.ts: the module-level Map host -> {tokens, last}
  lim,        \* per client: where its limit() call stands
  served,     \* history: per stored bucket, its creation time and its grants
  metrics,    \* the module-level Map site -> ScrapeHealth
  cookieJar,  \* the module-level Map host -> (cookie name -> value)
  uaState,    \* the module-level Map host -> next index into USER_AGENTS
  call,       \* per fetchResponse call: its parameters, locals and history
  built,      \* the last buildCookieHeader call: its inputs and its result
  tally,      \* history: per site, the record calls since its last success
  snap,       \* the snapshot a reader got from getScrapeHealth/getAllScrapeHealth
  pristine,   \* history: the metrics as the record and get calls alone made them
  cache,      \* the LRU cache of the responses, least recently used first
  req,        \* per request of a cached route: where serverCache stands
  stores,     \* history: per key, the last cache.set of serverCache
  last,       \* history: the request of a cached route that ended last
  arrivals,   \* history: the number of requests so far
  batch,      \* the getFinalUrls call: its inputs and its requests
  passed,     \* the last wajikFetch call: its inputs and what it passed to fetchResponse
  agents      \* history: per host, the User-Agent of each attempt's headers

vars == <<now, buckets, lim, served, metrics, cookieJar, uaState, call, built, tally, snap, pristine, cache, req, stores, last, arrivals, batch, passed, agents>>
fetchVars == <<metrics, cookieJar, uaState, call>>
limVars == <<buckets, lim, served>>
\* the variables that only the specifications of single modules use
healthAux == <<tally, snap, pristine>>
cacheVars == <<cache, req, stores, last, arrivals>>
svcVars == <<batch, passed, agents>>
auxVars == <<built, healthAux, cacheVars, svcVars>>

\* (a bucket that is created empty)
BucketOfEmpty(bk, h, t, burst) ==
  IF h \in DOMAIN bk THEN bk[h] ELSE [tokens |-> 0, last |-> t]

\* buckets.get(host) ?? { tokens: burst, last: now }
BucketOf(bk, h, t, burst) ==
  IF h \in DOMAIN bk THEN bk[h] ELSE [tokens |-> burst * OneToken, last |-> t]

\* (a refill that forgets the cap at burst)
RefillUncapped(b, t, rps, burst) ==
  [tokens |-> b.tokens + (t - b.last) * rps, last |-> t]

\* bucket.tokens = Math.min(burst, bucket.tokens + delta * rps); bucket.last = now
Refill(b, t, rps, burst) ==
  [tokens |-> Min(burst * OneToken, b.tokens + (t - b.last) * rps), last |-> t]

\* (a wait computed for half of the missing tokens)
WaitHalf(tokens, rps) == (OneToken - tokens) \div (2 * rps)

\* waitSeconds * 1000 = (1 - bucket.tokens) / rps * 1000
WaitMs(tokens, rps) == (OneToken - tokens) \div rps

\* (a return that takes no token)
ConsumeNothing(b) == b

\* bucket.tokens -= 1
Consume(b) == [b EXCEPT !.tokens = @ - OneToken]

\* The refilled bucket has a whole token: limit() returns, else it sleeps.
Granted(b) == ~(b.tokens < OneToken)

\* The map after the synchronous part of limit(): the bucket object is
\* mutated in place, so a refill of a stored bucket is kept even when the
\* caller goes to sleep; a fresh bucket is stored only by buckets.set.
BucketsAfterLimit(bk, h, t, rps, burst) ==
  LET b == Refill(BucketOf(bk, h, t, burst), t, rps, burst) IN
    IF Granted(b) THEN SetMap(bk, h, Consume(b))
    ELSE IF h \in DOMAIN bk THEN SetMap(bk, h, b) ELSE bk

IdleLim == [st |-> "idle", host |-> "h1", wakeAt |-> 0, obsAt |-> -1,
            obsTokens |-> 0, retAt |-> -1, got |-> 0, left |-> 0, waits |-> 0]

\* The state of client k after the synchronous part of limit(): returned
\* (st = "done") with the token it took, or asleep until wakeAt.
\* obsAt/obsTokens: the first time the call found less than one token;
\* waits: the number of sleeps of the call; got/left: the tokens found and
\* left by the call that returned.
LimAfterLimit(l, bk, h, t, rps, burst) ==
  LET b == Refill(BucketOf(bk, h, t, burst), t, rps, burst) IN
    IF Granted(b)
    THEN [l EXCEPT !.st = "done", !.host = h, !.retAt = t, !.got = b.tokens,
                   !.left = BucketsAfterLimit(bk, h, t, rps, burst)[h].tokens]
    ELSE [l EXCEPT !.st = "waiting", !.host = h, !.wakeAt = t + WaitMs(b.tokens, rps),
                   !.obsAt = IF l.waits = 0 THEN t ELSE @,
                   !.obsTokens = IF l.waits = 0 THEN b.tokens ELSE @,
                   !.waits = @ + 1]

\* The history of the stored buckets after the synchronous part of limit():
\* a return from a host without a bucket is the first grant of the bucket it
\* stores, a return from a stored bucket one more grant of that bucket.
ServedAfterLimit(sv, l, h, t) ==
  IF l.st # "done" THEN sv
  ELSE IF h \in DOMAIN sv THEN SetMap(sv, h, [sv[h] EXCEPT !.n = @ + 1])
  ELSE SetMap(sv, h, [since |-> t, n |-> 1])

\* limit({host, rps, burst}) up to its first await (or its return)
Limit(k, h, l0) ==
  /\ buckets' = BucketsAfterLimit(buckets, h, now, RpsOf(h), BurstOf(h))
  /\ lim' = [lim EXCEPT ![k] = LimAfterLimit(l0, buckets, h, now, RpsOf(h), BurstOf(h))]
  /\ served' = ServedAfterLimit(served, lim'[k], h, now)

\* a direct caller calls limit()
CallLimit(k, h) ==
  /\ k \in Callers
  /\ lim[k].st \in {"idle", "done"}
  /\ Limit(k, h, IdleLim)
  /\ UNCHANGED <<now, fetchVars, auxVars>>

\* the sleep of a suspended limit() ends: return limit({host, rps, burst})
WakeLimit(k) ==
  /\ k \in Callers
  /\ lim[k].st = "waiting"
  /\ now >= lim[k].wakeAt
  /\ Limit(k, lim[k].host, lim[k])
  /\ UNCHANGED <<now, fetchVars, auxVars>>

\* (a reset of one host that goes on to clear the whole map)
ResetHostClearsAll(h) ==
  /\ h \in DOMAIN buckets
  /\ buckets' = EmptyMap
  /\ served' = EmptyMap
  /\ UNCHANGED <<now, lim, fetchVars, auxVars>>

\* resetRateLimiter(host)
ResetHost(h) ==
  /\ h \in DOMAIN buckets
  /\ buckets' = DelMap(buckets, h)
  /\ served' = DelMap(served, h)
  /\ UNCHANGED <<now, lim, fetchVars, auxVars>>

\* resetRateLimiter()
ResetAll ==
  /\ DOMAIN buckets # {}
  /\ buckets' = EmptyMap
  /\ served' = EmptyMap
  /\ UNCHANGED <<now, lim, fetchVars, auxVars>>

\* the clock advances
Tick ==
  /\ now < MaxTicks * TickMs
  /\ now' = now + TickMs
  /\ UNCHANGED <<buckets, lim, served, fetchVars, auxVars>>

\* ======================================================== scrapeMetrics.ts
\* ---------------------------------------------------------- health metrics
\* an optional field that is undefined
NoTime == -1
NoStatus == 0
\* a message: its text and the status interpolated into it (NoStatus: none)
Msg(text, status) == [text |-> text, status |-> status]
NoMsg == Msg("", NoStatus)
NoError == [at |-> NoTime, status |-> NoStatus, message |-> NoMsg, url |-> ""]

\* getOrCreate(site)
GetOrCreate(m, site) ==
  IF site \in DOMAIN m THEN m
  ELSE SetMap(m, site, [lastSuccess |-> NoTime, lastError |-> NoError,
                        consecutiveFailures |-> 0])

\* (a success that leaves the count of failures alone)
RecordScrapeSuccessKeepsCount(m, site, t) ==
  LET m1 == GetOrCreate(m, site) IN
    SetMap(m1, site, [m1[site] EXCEPT !.lastSuccess = t])

\* recordScrapeSuccess(site)
RecordScrapeSuccess(m, site, t) ==
  LET m1 == GetOrCreate(m, site) IN
    SetMap(m1, site, [m1[site] EXCEPT !.lastSuccess = t, !.consecutiveFailures = 0])

\* recordScrapeFailure(site, {status, message, url})
RecordScrapeFailure(m, site, t, status, message, url) ==
  LET m1 == GetOrCreate(m, site) IN
    SetMap(m1, site,
           [m1[site] EXCEPT
              !.lastError = [at |-> t, status |-> status, message |-> message, url |-> url],
              !.consecutiveFailures = @ + 1])

\* ------------------------------------------------------------- the fetcher
UserAgentCount == 5
RETRY_STATUS == {403, 429, 500, 502, 503, 504}
\* response.ok
Ok(status) == status >= 200 /\ status <= 299

\* Math.floor(Math.random() * USER_AGENTS.length): the first and the last index
RandomIndex == {0, UserAgentCount - 1}

\* (a rotation that never moves on)
UaAfterChooseKept(ua, h, r) == SetMap(ua, h, IF h \in DOMAIN ua THEN ua[h] ELSE r)

\* chooseUserAgent(host) with r the random index: the index used
ChosenIndex(ua, h, r) == (IF h \in DOMAIN ua THEN ua[h] ELSE r) % UserAgentCount
\* uaState.set(host, (nextIndex + 1) % USER_AGENTS.length)
UaAfterChoose(ua, h, r) ==
  SetMap(ua, h, ((IF h \in DOMAIN ua THEN ua[h] ELSE r) + 1) % UserAgentCount)

\* ------------------------------------------- the user agents by themselves
\* the key under which a caller's headers hold a user agent: none, the key
\* that line 197 reads, and the same header in lower case
HeaderKeys == {"", "User-Agent", "user-agent"}
\* in the history: the attempt's User-Agent is headers["User-Agent"]
CallerAgent == -1
\* no more than MaxAttempts attempts are made
MaxAttempts == 7
RECURSIVE CountAttempts(_)
CountAttempts(hs) ==
  IF hs = {} THEN 0
  ELSE LET h == CHOOSE x \in hs : TRUE IN Len(agents[h]) + CountAttempts(hs \ {h})

\* "User-Agent": headers["User-Agent"] ?? chooseUserAgent(host), for one
\* attempt to host h of a call whose headers hold a user agent under key
BuildHeaders(h, key) ==
  /\ CountAttempts(Hosts) < MaxAttempts
  /\ \E r \in RandomIndex :
       /\ uaState' = IF key = "User-Agent" THEN uaState ELSE UaAfterChoose(uaState, h, r)
       /\ agents' = [agents EXCEPT ![h] =
            Append(@, IF key = "User-Agent" THEN CallerAgent ELSE ChosenIndex(uaState, h, r))]
  /\ UNCHANGED <<now, limVars, metrics, cookieJar, call, built, healthAux, cacheVars,
                 batch, passed>>

\* ------------------------------------------------------------- the strings
\* A string is the sequence of its characters; "" is <<>>.
\* s.indexOf(ch) + 1: the position of the first ch in s, 0 when there is none
IndexOf(s, ch) ==
  IF \E i \in 1 .. Len(s) : s[i] = ch
  THEN CHOOSE i \in 1 .. Len(s) : s[i] = ch /\ \A j \in 1 .. i - 1 : s[j] # ch
  ELSE 0
\* s.split(ch): the pieces of s between the occurrences of ch
RECURSIVE SplitOn(_, _)
SplitOn(s, ch) ==
  LET i == IndexOf(s, ch) IN
    IF i = 0 THEN <<s>>
    ELSE <<SubSeq(s, 1, i - 1)>> \o SplitOn(SubSeq(s, i + 1, Len(s)), ch)
\* s.trim()
Trim(s) ==
  LET inked == {i \in 1 .. Len(s) : s[i] # " "} IN
    IF inked = {} THEN <<>>
    ELSE SubSeq(s, CHOOSE i \in inked : \A j \in inked : i <= j,
                   CHOOSE i \in inked : \A j \in inked : i >= j)
\* parts.join(sep)
RECURSIVE Join(_, _)
Join(parts, sep) ==
  IF parts = <<>> THEN <<>>
  ELSE IF Len(parts) = 1 THEN parts[1]
  ELSE parts[1] \o sep \o Join(Tail(parts), sep)
\* const [name, ...rest] = part.split("="): name, and rest.join("=")
NameOf(part) ==
  LET i == IndexOf(part, "=") IN IF i = 0 THEN part ELSE SubSeq(part, 1, i - 1)
ValueOf(part) ==
  LET i == IndexOf(part, "=") IN IF i = 0 THEN <<>> ELSE SubSeq(part, i + 1, Len(part))

\* ------------------------------------------------------------- the cookies
\* A Map<string, string> is the sequence of its entries <<name, value>> in
\* insertion order.  map.set(name, value): a present name keeps its place.
MapSet(m, name, value) ==
  IF \E i \in 1 .. Len(m) : m[i][1] = name
  THEN [i \in 1 .. Len(m) |-> IF m[i][1] = name THEN <<name, value>> ELSE m[i]]
  ELSE Append(m, <<name, value>>)
\* cookieJar.get(host) ?? new Map()
StoredOf(jar, h) == IF h \in DOMAIN jar THEN jar[h] ELSE <<>>

\* the positions where fallback.split(/,(?=[^;]+?=)/g) cuts: a comma followed
\* by one or more characters other than ";" and then "="
CutAt(s, i) ==
  /\ s[i] = ","
  /\ \E j \in i + 2 .. Len(s) : s[j] = "=" /\ \A m \in i + 1 .. j - 1 : s[m] # ";"
RECURSIVE SplitFallback(_)
SplitFallback(s) ==
  IF \E i \in 1 .. Len(s) : CutAt(s, i)
  THEN LET i == CHOOSE i \in 1 .. Len(s) : CutAt(s, i) /\ \A j \in 1 .. i - 1 : ~CutAt(s, j) IN
         <<SubSeq(s, 1, i - 1)>> \o SplitFallback(SubSeq(s, i + 1, Len(s)))
  ELSE <<s>>

\* the loop of storeCookies (lines 132-138) over the cookie strings
RECURSIVE UpsertCookies(_, _)
UpsertCookies(store, cookies) ==
  IF cookies = <<>> THEN store
  ELSE LET pair == Head(SplitOn(Head(cookies), ";"))
           name == NameOf(Trim(pair))
           value == ValueOf(Trim(pair)) IN
    UpsertCookies(IF pair = <<>> \/ name = <<>> THEN store ELSE MapSet(store, name, value),
                  Tail(cookies))

\* (a store kept under one key for all hosts)
StoreCookiesShared(jar, h, lines) ==
  LET fallback == Join(lines, <<",", " ">>)
      cookies == lines \o (IF fallback = <<>> THEN <<>> ELSE SplitFallback(fallback)) IN
    IF cookies = <<>> THEN jar
    ELSE SetMap(jar, "h1", UpsertCookies(StoredOf(jar, "h1"), cookies))

\* (a store that starts from an empty Map for every response)
StoreCookiesReplacing(jar, h, lines) ==
  LET fallback == Join(lines, <<",", " ">>)
      cookies == lines \o (IF fallback = <<>> THEN <<>> ELSE SplitFallback(fallback)) IN
    IF cookies = <<>> THEN jar
    ELSE SetMap(jar, h, UpsertCookies(<<>>, cookies))

\* storeCookies(host, response), lines being the Set-Cookie header lines of
\* the response: headers.getSetCookie() gives the lines, and
\* headers.get("set-cookie") the lines joined by ", " (null when none).
StoreCookies(jar, h, lines) ==
  LET fallback == Join(lines, <<",", " ">>)
      cookies == lines \o (IF fallback = <<>> THEN <<>> ELSE SplitFallback(fallback)) IN
    IF cookies = <<>> THEN jar
    ELSE SetMap(jar, h, UpsertCookies(StoredOf(jar, h), cookies))

\* the loop of append (lines 91-99) over the trimmed, non-empty parts
RECURSIVE AppendParts(_, _)
AppendParts(cookieMap, parts) ==
  IF parts = <<>> THEN cookieMap
  ELSE LET part == Trim(Head(parts)) IN
    AppendParts(IF part = <<>> \/ NameOf(part) = <<>> THEN cookieMap
                ELSE MapSet(cookieMap, NameOf(part), ValueOf(part)),
                Tail(parts))
\* append(cookieString)
AppendCookies(cookieMap, cookieString) == AppendParts(cookieMap, SplitOn(cookieString, ";"))

\* Array.from(cookieMap.entries()).map(([key, value]) => `${key}=${value}`).join("; ")
HeaderOf(cookieMap) ==
  Join([i \in 1 .. Len(cookieMap) |-> cookieMap[i][1] \o <<"=">> \o cookieMap[i][2]],
       <<";", " ">>)

\* buildCookieHeader returns undefined: no Cookie header is sent
NoHeader == <<>>

\* (a header in which the stored cookies are set after the override's)
BuildCookieHeaderStoredLast(jar, h, override) ==
  LET stored == StoredOf(jar, h)
      cookieMap == AppendParts(AppendCookies(<<>>, override),
                               [i \in 1 .. Len(stored) |-> stored[i][1] \o <<"=">> \o stored[i][2]]) IN
    IF cookieMap = <<>> THEN NoHeader ELSE HeaderOf(cookieMap)

\* buildCookieHeader(host, override); an absent override is ""
BuildCookieHeader(jar, h, override) ==
  LET stored == StoredOf(jar, h)
      cookieMap == IF override # <<>> THEN AppendCookies(stored, override) ELSE stored IN
    IF override = <<>> /\ stored = <<>> THEN NoHeader
    ELSE IF cookieMap = <<>> THEN NoHeader
    ELSE HeaderOf(cookieMap)

\* -------------------------------------------------------------- the inputs
Urls == {"https://h1/a", "https://h2/a", "not a url"}
\* new URL(url) does not throw
UrlOk(url) == url # "not a url"
\* new URL(url).host
HostOf(url) == IF url = "https://h1/a" THEN "h1" ELSE "h2"
\* the site option, "" when the caller passes none
SiteOptions == {"", "anime"}
Sites == Hosts \cup (SiteOptions \ {""})
\* the maxRetries a caller passes: 0 .. MaxRetries
MaxRetries == 2
\* the timeoutMs a caller passes
TimeoutChoices == {2 * TickMs}
Statuses == {200, 404, 429, 503}
\* the Set-Cookie lines of a response
SetCookieChoices == {<<>>, << <<"s", "=", "1">> >>}
\* Math.random() * max, in whole milliseconds: the ends of [0, max)
Jitter(max) == {0, max - 1}
\* signal.reason.name: abort() gives an AbortError DOMException,
\* AbortSignal.timeout() a TimeoutError
ReasonNames == {"AbortError", "TimeoutError"}

NoErr == [type |-> "", message |-> NoMsg, status |-> NoStatus, url |-> "", site |-> "",
          attempt |-> 0, cause |-> ""]
NoResp == [status |-> NoStatus, setCookie |-> <<>>]

IdleCall ==
  [pc |-> "idle", url |-> "", host |-> "h1", site |-> "", maxRetries |-> 0,
   hasSignal |-> FALSE, timeoutMs |-> 0, cookies |-> <<>>, uaGiven |-> FALSE,
   attempt |-> 0, fetches |-> 0, acquires |-> 0, hist |-> <<>>, sleeps |-> <<>>,
   wakeAt |-> 0, timerAt |-> NoTime, listener |-> FALSE,
   aborted |-> FALSE, abortedIn |-> "", abortedAt |-> NoTime, attemptAtAbort |-> 0,
   endAt |-> NoTime, resp |-> NoResp, err |-> NoErr, fails |-> 0,
   sentUA |-> -1, sentCookie |-> NoHeader]

\* ----------------------------------------------------------- fetchResponse
\* The steps of one call, between its awaits:
\*   idle      not called yet
\*   limit     suspended in limit() (line 178)
\*   acquired  limit() has returned, lines 180-215 are next
\*   inflight  awaiting fetch() (line 209)
\*   backoff   awaiting delay(wait) (lines 224, 251, 257)
\*   returned / raised   the call has ended

\* the outcome of one HTTP attempt, as the call's history keeps it
Answered(status) == [kind |-> "response", status |-> status]
Failed(kind) == [kind |-> kind, status |-> NoStatus]

\* an error thrown inside the try block, as the catch block sees it
Thrown(name, isFFE, status, message) ==
  [name |-> name, isFFE |-> isFFE, status |-> status, message |-> message]

\* (a backoff whose exponent is the attempt, not the attempt before)
BackoffFromTwo(base, attempt, j) == base * 2 ^ attempt + j

\* (a backoff that does not grow with the attempt)
BackoffFlat(base, attempt, j) == base + j

\* 500 * Math.pow(2, attempt - 1) + Math.random() * 250, with j the random part
BackoffMs(base, attempt, j) == base * 2 ^ (attempt - 1) + j

\* (a loop that takes a token for its first attempt only)
EnterAttemptUnlimited(c, cl) ==
  IF cl.attempt = 0
  THEN LET h == cl.host
           l == LimAfterLimit(IdleLim, buckets, h, now, RpsOf(h), BurstOf(h)) IN
         /\ Limit(c, h, IdleLim)
         /\ call' = [call EXCEPT ![c] =
              [cl EXCEPT !.attempt = @ + 1,
                         !.pc = IF l.st = "done" THEN "acquired" ELSE "limit",
                         !.acquires = IF l.st = "done" THEN @ + 1 ELSE @]]
  ELSE /\ UNCHANGED limVars
       /\ call' = [call EXCEPT ![c] = [cl EXCEPT !.attempt = @ + 1, !.pc = "acquired"]]

\* the top of the loop: attempt += 1; await limit({host, rps, burst})
\* (cl is the call record, l0 the limiter state the call starts from)
EnterAttempt(c, cl) ==
  LET h == cl.host
      l == LimAfterLimit(IdleLim, buckets, h, now, RpsOf(h), BurstOf(h)) IN
    /\ Limit(c, h, IdleLim)
    /\ call' = [call EXCEPT ![c] =
         [cl EXCEPT !.attempt = @ + 1,
                    !.pc = IF l.st = "done" THEN "acquired" ELSE "limit",
                    !.acquires = IF l.st = "done" THEN @ + 1 ELSE @]]

\* await delay(wait); continue
Sleep(cl, wait, t) ==
  [cl EXCEPT !.pc = "backoff", !.wakeAt = t + wait, !.sleeps = Append(@, wait)]

\* (a retry test that allows one attempt too many)
RetryResponseLate(status, attempt, maxRetries) ==
  status \in RETRY_STATUS /\ attempt <= maxRetries + 1

\* (a retry of timeouts that does not count the attempts)
RetryAbortErrorAlways(e, attempt, maxRetries) == e.name = "AbortError"

\* the retry predicates of the loop
RetryResponse(status, attempt, maxRetries) ==
  status \in RETRY_STATUS /\ attempt <= maxRetries
RetryAbortError(e, attempt, maxRetries) ==
  e.name = "AbortError" /\ attempt <= maxRetries
RetryFailed(e, attempt, maxRetries) ==
  attempt <= maxRetries /\ (e.isFFE \/ e.status \in RETRY_STATUS)

\* throw new ScraperError(message, {status, site, url, cause: error})
ScraperError(message, status, site, url, cause) ==
  [type |-> "ScraperError", message |-> message, status |-> status, url |-> url,
   site |-> site, attempt |-> 0, cause |-> cause]
\* new FetchFailedError(message, attempt, {status, url, site})
FetchFailedError(message, attempt, status, site, url) ==
  [type |-> "FetchFailedError", message |-> message, status |-> status, url |-> url,
   site |-> site, attempt |-> attempt, cause |-> ""]

\* The error that leaves the catch block when it does not retry.
Rethrown(e, cl) == ScraperError(e.message, e.status, cl.site, cl.url, e.name)

\* The catch block (lines 241-264) for the error e thrown in the try block;
\* cl is the call record and m the metrics at the throw.
Catch(c, cl0, m, e) ==
  LET cl == [cl0 EXCEPT !.timerAt = NoTime, !.listener = FALSE] IN
    IF RetryAbortError(e, cl.attempt, cl.maxRetries) THEN
      \E j \in Jitter(150) :
        /\ call' = [call EXCEPT ![c] = Sleep(cl, BackoffMs(300, cl.attempt, j), now)]
        /\ metrics' = m
    ELSE IF RetryFailed(e, cl.attempt, cl.maxRetries) THEN
      \E j \in Jitter(400) :
        /\ call' = [call EXCEPT ![c] = Sleep(cl, BackoffMs(600, cl.attempt, j), now)]
        /\ metrics' = m
    ELSE
      /\ metrics' = RecordScrapeFailure(m, cl.site, now, e.status, e.message, cl.url)
      /\ call' = [call EXCEPT ![c] =
           [cl EXCEPT !.pc = "raised", !.endAt = now, !.fails = @ + 1,
                      !.err = Rethrown(e, cl)]]

\* fetchResponse(options) is called: lines 170-178
StartCall(c, url, site, maxRetries, hasSignal, timeoutMs) ==
  /\ call[c].pc = "idle"
  /\ LET cl == [call[c] EXCEPT !.url = url, !.maxRetries = maxRetries,
                               !.hasSignal = hasSignal, !.timeoutMs = timeoutMs] IN
       IF ~UrlOk(url)
       THEN \* new URL(url) throws a TypeError out of fetchResponse
         /\ call' = [call EXCEPT ![c] =
              [cl EXCEPT !.pc = "raised", !.endAt = now,
                         !.err = [NoErr EXCEPT !.type = "TypeError",
                                               !.message = Msg("Invalid URL", NoStatus)]]]
         /\ UNCHANGED <<buckets, lim, served>>
       ELSE
         EnterAttempt(c, [cl EXCEPT !.host = HostOf(url),
                                    !.site = IF site = "" THEN HostOf(url) ELSE site])
  /\ UNCHANGED <<now, metrics, cookieJar, uaState, auxVars>>

\* the sleep of the call's suspended limit() ends
WakeCallLimit(c) ==
  /\ call[c].pc = "limit"
  /\ now >= lim[c].wakeAt
  /\ Limit(c, call[c].host, lim[c])
  /\ call' = [call EXCEPT ![c] =
       IF LimAfterLimit(lim[c], buckets, @.host, now, RpsOf(@.host), BurstOf(@.host)).st = "done"
       THEN [@ EXCEPT !.pc = "acquired", !.acquires = @ + 1]
       ELSE @]
  /\ UNCHANGED <<now, metrics, cookieJar, uaState, auxVars>>

\* limit() has returned: lines 180-215, up to the await of fetch()
Issue(c) ==
  /\ call[c].pc = "acquired"
  /\ LET cl == call[c] IN
       IF cl.hasSignal /\ cl.aborted
       THEN \* clearTimeout(timeout); throw new ScraperError("Request aborted", ...)
         /\ call' = [call EXCEPT ![c] =
              [cl EXCEPT !.pc = "raised", !.endAt = now, !.timerAt = NoTime,
                         !.err = ScraperError(Msg("Request aborted", NoStatus),
                                              NoStatus, cl.site, cl.url, "")]]
         /\ UNCHANGED uaState
       ELSE
         \E r \in RandomIndex :
           /\ uaState' = IF cl.uaGiven THEN uaState ELSE UaAfterChoose(uaState, cl.host, r)
           /\ call' = [call EXCEPT ![c] =
                [cl EXCEPT !.pc = "inflight", !.timerAt = now + cl.timeoutMs,
                           !.listener = cl.hasSignal, !.fetches = @ + 1,
                           !.sentUA = IF cl.uaGiven THEN -1
                                      ELSE ChosenIndex(uaState, cl.host, r),
                           !.sentCookie = BuildCookieHeader(cookieJar, cl.host, cl.cookies)]]
  /\ UNCHANGED <<now, buckets, lim, served, metrics, cookieJar, auxVars>>

\* fetch() resolves with a response: lines 217-240, and the catch block for
\* the FetchFailedError thrown at line 236 inside the try block
Respond(c, status, setCookie) ==
  /\ call[c].pc = "inflight"
  /\ LET cl == [call[c] EXCEPT !.timerAt = NoTime, !.listener = FALSE,
                               !.hist = Append(@, Answered(status)),
                               !.resp = [status |-> status, setCookie |-> setCookie]]
         message == Msg("Fetch failed with status", status) IN
       IF RetryResponse(status, cl.attempt, cl.maxRetries) THEN
         /\ \E j \in Jitter(250) :
              call' = [call EXCEPT ![c] = Sleep(cl, BackoffMs(500, cl.attempt, j), now)]
         /\ UNCHANGED <<metrics, cookieJar>>
       ELSE IF ~Ok(status) THEN
         /\ LET error == FetchFailedError(message, cl.attempt, status, cl.site, cl.url) IN
              Catch(c, [cl EXCEPT !.fails = @ + 1],
                    RecordScrapeFailure(metrics, cl.site, now, status, message, cl.url),
                    Thrown(error.type, TRUE, error.status, error.message))
         /\ UNCHANGED cookieJar
       ELSE
         /\ cookieJar' = StoreCookies(cookieJar, cl.host, setCookie)
         /\ call' = [call EXCEPT ![c] = [cl EXCEPT !.pc = "returned", !.endAt = now]]
         /\ UNCHANGED metrics
  /\ UNCHANGED <<now, buckets, lim, served, uaState, auxVars>>

\* the attempt's timer fires while fetch() is pending: the attempt is aborted
\* with DOMException("Request timed out", "AbortError")
TimeoutFires(c) ==
  /\ call[c].pc = "inflight"
  /\ now >= call[c].timerAt
  /\ Catch(c, [call[c] EXCEPT !.hist = Append(@, Failed("timeout"))], metrics,
           Thrown("AbortError", FALSE, NoStatus, Msg("Request timed out", NoStatus)))
  /\ UNCHANGED <<now, buckets, lim, served, cookieJar, uaState, auxVars>>

\* fetch() rejects with a network-level failure (a TypeError)
NetworkError(c) ==
  /\ call[c].pc = "inflight"
  /\ Catch(c, [call[c] EXCEPT !.hist = Append(@, Failed("network"))], metrics,
           Thrown("TypeError", FALSE, NoStatus, Msg("fetch failed", NoStatus)))
  /\ UNCHANGED <<now, buckets, lim, served, cookieJar, uaState, auxVars>>

\* The caller's signal fires with a reason named r.  While fetch() is pending
\* the abort listener aborts the attempt with that reason and fetch() rejects
\* with it; anywhere else the call has no listener and only signal.aborted
\* changes.
Abort(c, r) ==
  /\ call[c].pc \in {"limit", "acquired", "inflight", "backoff"}
  /\ call[c].hasSignal
  /\ ~call[c].aborted
  /\ LET cl == [call[c] EXCEPT !.aborted = TRUE, !.abortedIn = call[c].pc,
                               !.abortedAt = now, !.attemptAtAbort = call[c].attempt] IN
       IF cl.pc = "inflight"
       THEN Catch(c, [cl EXCEPT !.hist = Append(@, Failed("abort"))], metrics,
                  Thrown(r, FALSE, NoStatus, Msg("This operation was aborted", NoStatus)))
       ELSE /\ call' = [call EXCEPT ![c] = cl]
            /\ UNCHANGED metrics
  /\ UNCHANGED <<now, buckets, lim, served, cookieJar, uaState, auxVars>>

\* delay(wait) resolves: continue
WakeBackoff(c) ==
  /\ call[c].pc = "backoff"
  /\ now >= call[c].wakeAt
  /\ EnterAttempt(c, call[c])
  /\ UNCHANGED <<now, metrics, cookieJar, uaState, auxVars>>

\* the caller has got the response or the error of its call and calls again
EndCall(c) ==
  /\ call[c].pc \in {"returned", "raised"}
  /\ call' = [call EXCEPT ![c] = IdleCall]
  /\ lim' = [lim EXCEPT ![c] = IdleLim]
  /\ UNCHANGED <<now, buckets, served, metrics, cookieJar, uaState, auxVars>>

\* ------------------------------------------------ the cookie jar by itself
\* the characters of the override strings
CookieChars == {"s", "t", "=", ";", " "}
\* the override strings: every string of up to MaxOverrideLen characters, and
\* three longer ones (a name given twice, two names, blanks around the parts)
MaxOverrideLen == 3
Overrides ==
  UNION {[1 .. n -> CookieChars] : n \in 0 .. MaxOverrideLen}
    \cup {<<"s", "=", "s", ";", "s", "=", "t">>,
          <<"t", "=", "s", ";", " ", "s", "=", "t">>,
          <<" ", "s", "=", "t", " ", ";">>}
\* the Set-Cookie lines of the responses of a host: a cookie, the same cookie
\* with another value and an attribute, a value holding "=", a cookie without
\* a name, a value holding a comma, and two lines in one response
SetCookieLists ==
  {<< <<"s", "=", "1">> >>,
   << <<"s", "=", "2", ";", " ", "P", "=", "/">> >>,
   << <<"t", "=", "a", "=", "b">> >>,
   << <<"=", "x">> >>,
   << <<"s", "=", "1", ",", "t", "=", "2">> >>,
   << <<"t", "=", "2">>, <<"s", "=", "2">> >>}

NoBuilt == [done |-> FALSE, host |-> "", override |-> <<>>, stored |-> <<>>, out |-> <<>>]

\* storeCookies(host, response) for a response carrying the lines
StoreResponseCookies(h, lines) ==
  /\ cookieJar' = StoreCookies(cookieJar, h, lines)
  /\ built' = NoBuilt
  /\ UNCHANGED <<now, limVars, metrics, uaState, call, healthAux, cacheVars, svcVars>>

\* buildCookieHeader(host, override) is called.  The call changes no module
\* state, so one call is looked at per state of the jar.
BuildHeader(h, override) ==
  /\ ~built.done
  /\ built' = [done |-> TRUE, host |-> h, override |-> override,
               stored |-> StoredOf(cookieJar, h),
               out |-> BuildCookieHeader(cookieJar, h, override)]
  /\ UNCHANGED <<now, limVars, metrics, cookieJar, uaState, call, healthAux, cacheVars, svcVars>>

\* ------------------------------------------- the health metrics by itself
\* the sites whose scrapes are recorded
HealthSites == {"h1", "anime"}
\* the status of a recorded failure: none (a timeout) or the response's
FailureStatuses == {NoStatus, 503}
\* a site is not left to fail more than MaxFailures times in a row
MaxFailures == 3
\* the value a reader writes into a snapshot
Tampered == 418

\* tally: failures, the recordScrapeFailure calls since the last success;
\* last, the kind of the last record call, and failuresBefore, the failures
\* counted before it; error, what the last recordScrapeFailure call recorded;
\* successAt, the time of the last recordScrapeSuccess call.
NoTally == [failures |-> 0, last |-> "", failuresBefore |-> 0, error |-> NoError,
            successAt |-> NoTime]
TallyOf(site) == IF site \in DOMAIN tally THEN tally[site] ELSE NoTally
\* A snapshot: recs, its records by site (copies of the top-level fields), and
\* shared, the sites whose lastError object is the one the live record holds.
NoSnap == [held |-> FALSE, recs |-> EmptyMap, shared |-> {}]
\* { ...value } for the records of the sites: the lastError of the copy is the
\* object of the live record
ShallowCopy(m, sites) == {site \in sites : m[site].lastError # NoError}

\* recordScrapeFailure(site, {status, message, url}) is called (the reader of
\* an earlier snapshot is done with it)
RecordFailure(site, status) ==
  LET message == Msg("Fetch failed with status", status)
      url == "https://h1/a" IN
    /\ TallyOf(site).failures < MaxFailures
    /\ metrics' = RecordScrapeFailure(metrics, site, now, status, message, url)
    /\ pristine' = RecordScrapeFailure(pristine, site, now, status, message, url)
    /\ tally' = SetMap(tally, site,
         [TallyOf(site) EXCEPT
            !.failures = @ + 1, !.last = "failure", !.failuresBefore = TallyOf(site).failures,
            !.error = [at |-> now, status |-> status, message |-> message, url |-> url]])
    /\ snap' = NoSnap
    /\ UNCHANGED <<now, limVars, cookieJar, uaState, call, built, cacheVars, svcVars>>

\* recordScrapeSuccess(site) is called
RecordSuccess(site) ==
  /\ metrics' = RecordScrapeSuccess(metrics, site, now)
  /\ pristine' = RecordScrapeSuccess(pristine, site, now)
  /\ tally' = SetMap(tally, site,
       [TallyOf(site) EXCEPT
          !.failures = 0, !.last = "success", !.failuresBefore = TallyOf(site).failures,
          !.successAt = now])
  /\ snap' = NoSnap
  /\ UNCHANGED <<now, limVars, cookieJar, uaState, call, built, cacheVars, svcVars>>

\* (a read of one site that stores nothing)
GetScrapeHealthPure(site) ==
  /\ snap' = [held |-> TRUE, recs |-> [x \in {site} |-> GetOrCreate(metrics, site)[x]],
              shared |-> ShallowCopy(GetOrCreate(metrics, site), {site})]
  /\ UNCHANGED <<now, limVars, metrics, cookieJar, uaState, call, built, tally, pristine,
                 cacheVars, svcVars>>

\* getScrapeHealth(site) is called: getOrCreate stores a record for a new site
GetScrapeHealth(site) ==
  /\ metrics' = GetOrCreate(metrics, site)
  /\ pristine' = GetOrCreate(pristine, site)
  /\ snap' = [held |-> TRUE, recs |-> [x \in {site} |-> metrics'[x]],
              shared |-> ShallowCopy(metrics', {site})]
  /\ UNCHANGED <<now, limVars, cookieJar, uaState, call, built, tally, cacheVars, svcVars>>

\* getAllScrapeHealth() is called
GetAllScrapeHealth ==
  /\ snap' = [held |-> TRUE, recs |-> metrics, shared |-> ShallowCopy(metrics, DOMAIN metrics)]
  /\ UNCHANGED <<now, limVars, metrics, cookieJar, uaState, call, built, tally, pristine, cacheVars, svcVars>>

\* the reader assigns to a top-level field of a record of its snapshot
MutateSnapshot(site) ==
  /\ site \in DOMAIN snap.recs
  /\ snap' = [snap EXCEPT !.recs[site].consecutiveFailures = Tampered]
  /\ UNCHANGED <<now, limVars, fetchVars, built, tally, pristine, cacheVars, svcVars>>

\* the reader assigns to a field of the lastError object of its snapshot: the
\* live record changes with it while it holds the same object
MutateSnapshotError(site) ==
  /\ site \in DOMAIN snap.recs
  /\ snap.recs[site].lastError # NoError
  /\ snap' = [snap EXCEPT !.recs[site].lastError.status = Tampered]
  /\ metrics' = IF site \in snap.shared
                THEN [metrics EXCEPT ![site].lastError.status = Tampered]
                ELSE metrics
  /\ UNCHANGED <<now, limVars, cookieJar, uaState, call, built, tally, pristine, cacheVars, svcVars>>

\* ============================================== cache.ts: serverCache
\* ------------------------------------------------------- the LRU cache
\* (libs/lruCache, modelled from the specification: an entry is live while
\* now < expiresAt, and the least recently used entry goes when there are
\* more than MaxEntries)
DefaultTTL == 60000
MaxEntries == 1
\* cache.get(key) finds no live entry: undefined
NoBody == [kind |-> "none", ok |-> "none", data |-> ""]
NoValue == [type |-> "undefined", body |-> NoBody]
LiveAt(ch, key, t) == {i \in 1 .. Len(ch) : ch[i].key = key /\ t < ch[i].expiresAt}
RECURSIVE Without(_, _)
Without(ch, key) ==
  IF ch = <<>> THEN <<>>
  ELSE IF Head(ch).key = key THEN Without(Tail(ch), key)
  ELSE <<Head(ch)>> \o Without(Tail(ch), key)
\* cache.get(key): the value returned, and the cache afterwards (a live entry
\* becomes the most recently used one, an expired one is dropped)
CacheGet(ch, key, t) ==
  IF LiveAt(ch, key, t) = {} THEN NoValue
  ELSE ch[CHOOSE i \in LiveAt(ch, key, t) : TRUE].value
CacheAfterGet(ch, key, t) ==
  IF LiveAt(ch, key, t) = {} THEN Without(ch, key)
  ELSE Append(Without(ch, key), ch[CHOOSE i \in LiveAt(ch, key, t) : TRUE])
\* cache.set(key, value, {ttl}); origin, the handler result the value was
\* taken from, and at, the time of the call, are history
CacheSet(ch, key, value, ttl, t, origin) ==
  LET all == Append(Without(ch, key),
                    [key |-> key, value |-> value, expiresAt |-> t + ttl, origin |-> origin,
                     at |-> t]) IN
    IF Len(all) > MaxEntries THEN Tail(all) ELSE all

\* ------------------------------------------------------------ the routes
\* The cached routes, by key (path and query): "/a" is serverCache(0.025) and
\* "/t" is serverCache(undefined, "text"); "/z", on its own below, is
\* serverCache(0).
Keys == {"/a", "/t"}
\* ttl, in thousandths of a minute; 0 is a ttl of 0 or an absent ttl, which
\* line 10 does not tell apart
TtlOf(key) == IF key = "/a" THEN 25 ELSE 0
ResponseTypeOf(key) == IF key = "/t" THEN "text" ELSE "json"
Requests == {"r1", "r2"}
\* no more than MaxRequests requests arrive
MaxRequests == 3

\* The body of a handler's response: a JSON payload with ok true (and its
\* data) or with ok false, or a text that is not JSON.
OkTrue(data) == [kind |-> "payload", ok |-> "true", data |-> data]
OkFalse == [kind |-> "payload", ok |-> "false", data |-> ""]
Html == [kind |-> "text", ok |-> "none", data |-> "d1"]
\* what a handler answers: c.res.status and the body
Answer(status, body) == [status |-> status, body |-> body]
HandlerResults ==
  {Answer(200, OkTrue("d1")), Answer(200, OkTrue("d2")), Answer(200, OkFalse),
   Answer(200, Html), Answer(500, OkTrue("d1")), Answer(500, OkFalse)}
NoResult == Answer(NoStatus, NoBody)

\* (a middleware that passes no ttl of its own to cache.set)
NewTTLIgnored(ttl) == DefaultTTL
\* const newTTL = ttl ? 1000 * 60 * ttl : defaultTTL, in milliseconds
NewTTL(ttl) == IF ttl # 0 THEN 60 * ttl ELSE DefaultTTL

\* (a test that takes no cached value for a hit)
TruthyNever(value) == FALSE
\* if (cachedData): an object, or a string that is not empty
Truthy(value) ==
  \/ value.type = "object"
  \/ value.type = "string" /\ value.body.kind # "empty"

\* (a store that does not look at the ok flag of a JSON payload)
CachedValueAnyPayload(responseType, status, body) ==
  IF ~(status < 399) THEN NoValue
  ELSE IF responseType = "json"
    THEN IF body.kind = "payload" THEN [type |-> "object", body |-> body] ELSE NoValue
  ELSE [type |-> "string", body |-> body]
\* (a store that does not look at the status)
CachedValueAnyStatus(responseType, status, body) ==
  IF responseType = "json"
    THEN IF body.kind = "payload" /\ body.ok = "true"
         THEN [type |-> "object", body |-> body] ELSE NoValue
  ELSE [type |-> "string", body |-> body]
\* Lines 34-56: the value serverCache stores for a response, NoValue when it
\* stores nothing.  "json": the parsed body when it is an object with a truthy
\* ok (a body that is not JSON makes json() throw); "text": the body's text.
CachedValue(responseType, status, body) ==
  IF ~(status < 399) THEN NoValue
  ELSE IF responseType = "json"
    THEN IF body.kind = "payload" /\ body.ok = "true"
         THEN [type |-> "object", body |-> body] ELSE NoValue
  ELSE [type |-> "string", body |-> body]

\* A request awaiting its handler, with the history of its arrival: seq, its
\* number; sawStore, the last store for its key was of an ok payload and had
\* not expired; inCache, the cache held a live entry for its key.
IdleReq == [pc |-> "idle", key |-> "", seq |-> 0, sawStore |-> FALSE, inCache |-> FALSE]
\* The request that ended last (history).  served: "cache" (c.json / c.text of
\* the cached value) or "handler"; out: the body sent; result: what the
\* handler answered; didStore: cache.set was called; sawValue: the value of
\* the store it saw; endedBy: the number of requests arrived when it ended.
NoLast ==
  [key |-> "", seq |-> 0, served |-> "", out |-> NoBody, result |-> NoResult,
   didStore |-> FALSE, sawStore |-> FALSE, sawValue |-> NoValue, inCache |-> FALSE,
   endedBy |-> 0]

\* a request for key arrives: lines 10-31, up to the await of next()
Arrive(r, key) ==
  /\ req[r].pc = "idle"
  /\ arrivals < MaxRequests
  /\ arrivals' = arrivals + 1
  /\ LET cachedData == CacheGet(cache, key, now)
         stored == key \in DOMAIN stores /\ now < stores[key].expiresAt
                     /\ stores[key].origin.body.ok = "true"
         inCache == LiveAt(cache, key, now) # {} IN
       /\ cache' = CacheAfterGet(cache, key, now)
       /\ IF Truthy(cachedData)
          THEN /\ last' = [NoLast EXCEPT !.key = key, !.seq = arrivals + 1,
                                         !.served = "cache", !.out = cachedData.body,
                                         !.endedBy = arrivals + 1,
                                         !.sawStore = stored, !.inCache = inCache,
                                         !.sawValue = IF stored THEN stores[key].value
                                                      ELSE NoValue]
               /\ UNCHANGED req
          ELSE /\ req' = [req EXCEPT ![r] =
                    [pc |-> "handling", key |-> key, seq |-> arrivals + 1,
                     sawStore |-> stored, inCache |-> inCache]]
               /\ UNCHANGED last
  /\ UNCHANGED <<now, limVars, fetchVars, built, healthAux, stores, svcVars>>

\* (a middleware that leaves the entry of a key alone once there is one)
HandlerReturnsKeepsFirst(r, result) ==
  /\ req[r].pc = "handling"
  /\ LET key == req[r].key
         value == IF LiveAt(cache, key, now) # {} THEN NoValue
                  ELSE CachedValue(ResponseTypeOf(key), result.status, result.body)
         newTTL == NewTTL(TtlOf(key)) IN
       /\ cache' = IF value = NoValue THEN cache
                   ELSE CacheSet(cache, key, value, newTTL, now, result)
       /\ stores' = IF value = NoValue THEN stores
                    ELSE SetMap(stores, key, [value |-> value, expiresAt |-> now + newTTL,
                                              origin |-> result])
       /\ last' = [NoLast EXCEPT !.key = key, !.seq = req[r].seq, !.served = "handler",
                                 !.out = result.body, !.result = result,
                                 !.didStore = value # NoValue, !.endedBy = arrivals,
                                 !.sawStore = req[r].sawStore, !.inCache = req[r].inCache]
       /\ req' = [req EXCEPT ![r] = IdleReq]
  /\ UNCHANGED <<now, limVars, fetchVars, built, healthAux, arrivals, svcVars>>

\* next() resolves, the handler having answered status and body: lines 33-56
HandlerReturns(r, result) ==
  /\ req[r].pc = "handling"
  /\ LET key == req[r].key
         value == CachedValue(ResponseTypeOf(key), result.status, result.body)
         newTTL == NewTTL(TtlOf(key)) IN
       /\ cache' = IF value = NoValue THEN cache
                   ELSE CacheSet(cache, key, value, newTTL, now, result)
       /\ stores' = IF value = NoValue THEN stores
                    ELSE SetMap(stores, key, [value |-> value, expiresAt |-> now + newTTL,
                                              origin |-> result])
       /\ last' = [NoLast EXCEPT !.key = key, !.seq = req[r].seq, !.served = "handler",
                                 !.out = result.body, !.result = result,
                                 !.didStore = value # NoValue, !.endedBy = arrivals,
                                 !.sawStore = req[r].sawStore, !.inCache = req[r].inCache]
       /\ req' = [req EXCEPT ![r] = IdleReq]
  /\ UNCHANGED <<now, limVars, fetchVars, built, healthAux, arrivals, svcVars>>

\* The error a failing handler throws, as what the caller of the route gets.
HandlerError == [kind |-> "error", ok |-> "none", data |-> "ScraperError"]
\* (a middleware that catches the error and caches an answer made of it)
NextRejectedCaught(ch, key, err, t) ==
  [cache |-> CacheSet(ch, key, [type |-> "object", body |-> OkFalse], DefaultTTL, t,
                      Answer(500, OkFalse)),
   out |-> OkFalse, didStore |-> TRUE]
\* Line 31: await next() stands in no try, so a rejection leaves the
\* middleware at once with the error; nothing of lines 33-56 runs.
NextRejected(ch, key, err, t) == [cache |-> ch, out |-> err, didStore |-> FALSE]

\* next() rejects, the handler having thrown
HandlerThrows(r) ==
  /\ req[r].pc = "handling"
  /\ LET key == req[r].key
         after == NextRejected(cache, key, HandlerError, now) IN
       /\ cache' = after.cache
       /\ last' = [NoLast EXCEPT !.key = key, !.seq = req[r].seq, !.served = "error",
                                 !.out = after.out, !.didStore = after.didStore,
                                 !.endedBy = arrivals,
                                 !.sawStore = req[r].sawStore, !.inCache = req[r].inCache]
       /\ req' = [req EXCEPT ![r] = IdleReq]
  /\ UNCHANGED <<now, limVars, fetchVars, built, healthAux, stores, arrivals, svcVars>>

\* index.ts line 70: the status of the answer the error handler makes of an
\* error that carries no status
ErrorStatus == 500

\* ================================== dataFetcher.ts: getFinalUrls
\* no more than MaxUrls urls in a batch, no more than MaxTries for retries
MaxUrls == 2
MaxTries == 2
\* getFinalUrl(url): what it returns when it does not throw, the Location of
\* the response resolved against the url, or the url when there is none
FinalUrlOf(url) == IF url = "urlA" THEN "urlB" ELSE url
\* no call yet.  Per url: pc, where retryRequest stands; attempt, the loop
\* variable; value, what the promise was fulfilled with; thrown, the number of
\* attempts that threw (history).  result is the array returned.
IdleBatch == [pc |-> "idle", urls |-> <<>>, retries |-> 0, requests |-> <<>>, result |-> <<>>]
\* Lines 261-270, up to the first await: with retries < 1 the loop has no
\* iteration and the promise is fulfilled with undefined.
RetryRequest(url, retries) ==
  IF 1 <= retries
  THEN [pc |-> "trying", attempt |-> 1, value |-> "", thrown |-> 0]
  ELSE [pc |-> "fulfilled", attempt |-> 1, value |-> "undefined", thrown |-> 0]
\* (a map that hands out what the promise holds, without a placeholder)
SettledValueAsIs(request) ==
  IF request.pc = "fulfilled" THEN request.value ELSE "error"
\* Lines 275-278: the entry of a settled promise
SettledValue(request) ==
  IF request.pc = "fulfilled" THEN request.value ELSE ""

\* getFinalUrls(urls, ref, {retryConfig: {retries}}): lines 259-273, every
\* retryRequest started in the order of urls
GetFinalUrls(urls, retries) ==
  /\ batch.pc = "idle"
  /\ batch' = [pc |-> "waiting", urls |-> urls, retries |-> retries,
               requests |-> [i \in 1 .. Len(urls) |-> RetryRequest(urls[i], retries)],
               result |-> <<>>]
  /\ UNCHANGED <<now, limVars, fetchVars, built, healthAux, cacheVars, passed, agents>>

\* the getFinalUrl call of request i returns (line 264) or throws (lines
\* 265-267: rethrown on the last attempt, else the delay starts)
AttemptEnds(i, threw) ==
  /\ batch.pc = "waiting"
  /\ i \in 1 .. Len(batch.requests)
  /\ LET request == batch.requests[i] IN
       /\ request.pc = "trying"
       /\ batch' = [batch EXCEPT !.requests[i] =
            IF ~threw
            THEN [request EXCEPT !.pc = "fulfilled", !.value = FinalUrlOf(batch.urls[i])]
            ELSE IF request.attempt = batch.retries
            THEN [request EXCEPT !.pc = "rejected", !.thrown = @ + 1]
            ELSE [request EXCEPT !.pc = "delay", !.thrown = @ + 1]]
  /\ UNCHANGED <<now, limVars, fetchVars, built, healthAux, cacheVars, passed, agents>>

\* the delay of request i is over: the next iteration of the loop
DelayEnds(i) ==
  /\ batch.pc = "waiting"
  /\ i \in 1 .. Len(batch.requests)
  /\ batch.requests[i].pc = "delay"
  /\ batch' = [batch EXCEPT !.requests[i].pc = "trying", !.requests[i].attempt = @ + 1]
  /\ UNCHANGED <<now, limVars, fetchVars, built, healthAux, cacheVars, passed, agents>>

\* Promise.allSettled resolves, every request being settled: lines 273-278
AllSettled ==
  /\ batch.pc = "waiting"
  /\ \A i \in 1 .. Len(batch.requests) : batch.requests[i].pc \in {"fulfilled", "rejected"}
  /\ batch' = [batch EXCEPT !.pc = "returned",
                            !.result = [i \in 1 .. Len(batch.requests) |->
                                          SettledValue(batch.requests[i])]]
  /\ UNCHANGED <<now, limVars, fetchVars, built, healthAux, cacheVars, passed, agents>>

\* ------------------------------------------------- getFinalUrl: the redirect
\* the Location header of the response: none, a path, and a string that
\* new URL(location, finalUrl) rejects
Locations == {"", "/b", "http://["}
LocationOk(location) == location # "http://["
\* lines 236-245 of getFinalUrl, after fetchResponse has returned a response
\* whose url is responseUrl: the value returned or the error thrown
RedirectOutcome(location, responseUrl, finalUrl, siteKey) ==
  IF location # ""
  THEN IF LocationOk(location)
       THEN [kind |-> "returned", value |-> location, err |-> NoErr]
       ELSE [kind |-> "raised", value |-> "",
             err |-> ScraperError(Msg("Invalid redirect URL", NoStatus), NoStatus,
                                  siteKey, finalUrl, "TypeError")]
  ELSE [kind |-> "returned", value |-> IF responseUrl # "" THEN responseUrl ELSE finalUrl,
        err |-> NoErr]

\* ===================================== dataFetcher.ts: wajikFetch
\* undefined, where a string may stand
Absent == <<"undefined">>
\* HOST_CONFIG: the cookies configured for a host ("sama" stands for the host
\* of animeConfig.baseUrl.samehadaku, "other" for a host without configuration)
HostCookies(host) == IF host = "sama" THEN <<"c", "=", "1">> ELSE Absent
\* joinCookies(a, b): trimmed, the empty and absent parts dropped, joined
JoinCookies(a, b) ==
  LET kept(x) == IF x = Absent \/ Trim(x) = <<>> THEN <<>> ELSE <<Trim(x)>>
      value == Join(kept(a) \o kept(b), <<";", " ">>) IN
    IF Len(value) > 0 THEN value ELSE Absent
\* Lines 117-166: what wajikFetch passes to fetchResponse as cookies and, of
\* the caller's headers, as Cookie and cookie.  ref is the host of ref, ""
\* when ref is no url.
WajikOptions(target, ref, headers) ==
  LET siteKey == IF ref # "" THEN ref ELSE target
      headerCookie == IF headers.Cookie # Absent THEN headers.Cookie ELSE headers.cookie
      truthy == headerCookie # Absent /\ headerCookie # <<>>
      hostConfig == IF HostCookies(target) # Absent THEN HostCookies(target)
                    ELSE HostCookies(siteKey) IN
    [cookies |-> JoinCookies(hostConfig, headerCookie),
     headers |-> IF truthy THEN [Cookie |-> Absent, cookie |-> Absent] ELSE headers]
NoSent == [called |-> FALSE, target |-> "", ref |-> "",
           headers |-> [Cookie |-> Absent, cookie |-> Absent],
           options |-> [cookies |-> Absent, headers |-> [Cookie |-> Absent, cookie |-> Absent]]]

\* wajikFetch(url, ref, {headers}), up to its call of fetchResponse
WajikFetch(target, ref, headers) ==
  /\ passed' = [called |-> TRUE, target |-> target, ref |-> ref, headers |-> headers,
              options |-> WajikOptions(target, ref, headers)]
  /\ UNCHANGED <<now, limVars, fetchVars, built, healthAux, cacheVars, batch, agents>>

Init ==
  /\ now = 0
  /\ buckets = EmptyMap
  /\ lim = [k \in Clients |-> IdleLim]
  /\ served = EmptyMap
  /\ metrics = EmptyMap
  /\ cookieJar = EmptyMap
  /\ uaState = EmptyMap
  /\ call = [c \in Calls |-> IdleCall]
  /\ built = NoBuilt
  /\ tally = EmptyMap
  /\ snap = NoSnap
  /\ pristine = EmptyMap
  /\ cache = <<>>
  /\ req = [r \in Requests |-> IdleReq]
  /\ stores = EmptyMap
  /\ last = NoLast
  /\ arrivals = 0
  /\ batch = IdleBatch
  /\ passed = NoSent
  /\ agents = [h \in Hosts |-> <<>>]

Next ==
  \/ \E c \in Calls, url \in Urls, site \in SiteOptions, k \in 0 .. MaxRetries,
        hasSignal \in BOOLEAN, timeoutMs \in TimeoutChoices :
       StartCall(c, url, site, k, hasSignal, timeoutMs)
  \/ \E c \in Calls : WakeCallLimit(c)
  \/ \E c \in Calls : Issue(c)
  \/ \E c \in Calls, status \in Statuses, sc \in SetCookieChoices : Respond(c, status, sc)
  \/ \E c \in Calls : TimeoutFires(c)
  \/ \E c \in Calls : NetworkError(c)
  \/ \E c \in Calls, r \in ReasonNames : Abort(c, r)
  \/ \E c \in Calls : WakeBackoff(c)
  \/ Tick

\* The fetcher: fetchResponse calls against an upstream that answers, fails
\* or times out, a caller that may abort, and the clock.
Spec == Init /\ [][Next]_vars

NextLimiter ==
  \/ \E k \in Callers, h \in Hosts : CallLimit(k, h)
  \/ \E k \in Callers : WakeLimit(k)
  \/ \E h \in Hosts : ResetHost(h)
  \/ ResetAll
  \/ Tick

\* The rate limiter alone: concurrent callers of limit(), resets, the clock.
SpecLimiter == Init /\ [][NextLimiter]_vars

NextWaiters ==
  \/ \E k \in Callers, h \in Hosts : CallLimit(k, h)
  \/ \E k \in Callers : WakeLimit(k)
  \/ Tick

\* The callers of limit() and the clock, with no reset of the buckets.
SpecWaiters == Init /\ [][NextWaiters]_vars

NextCookie ==
  \/ \E h \in Hosts, lines \in SetCookieLists : StoreResponseCookies(h, lines)
  \/ \E h \in Hosts, override \in Overrides : BuildHeader(h, override)

\* The cookie jar alone: responses that set cookies, and header builds.
SpecCookie == Init /\ [][NextCookie]_vars

NextHealth ==
  \/ \E site \in HealthSites, status \in FailureStatuses : RecordFailure(site, status)
  \/ \E site \in HealthSites : RecordSuccess(site)
  \/ Tick

\* The health metrics alone: recorded outcomes and the clock.
SpecHealth == Init /\ [][NextHealth]_vars

NextReader ==
  \/ \E site \in HealthSites, status \in FailureStatuses : RecordFailure(site, status)
  \/ \E site \in HealthSites : RecordSuccess(site)
  \/ \E site \in HealthSites : GetScrapeHealth(site)
  \/ GetAllScrapeHealth
  \/ \E site \in HealthSites : MutateSnapshot(site)
  \/ \E site \in HealthSites : MutateSnapshotError(site)

\* The health metrics at one instant, with a reader that writes into the
\* snapshots it got.
SpecReader == Init /\ [][NextReader]_vars

NextCache ==
  \/ \E r \in Requests, key \in Keys : Arrive(r, key)
  \/ \E r \in Requests, result \in HandlerResults : HandlerReturns(r, result)
  \/ \E r \in Requests : HandlerThrows(r)
  \/ Tick

\* The response cache: requests of the cached routes, their handlers, the clock.
SpecCache == Init /\ [][NextCache]_vars

NextCacheZero ==
  \/ \E r \in Requests : Arrive(r, "/z")
  \/ \E r \in Requests, result \in HandlerResults : HandlerReturns(r, result)
  \/ \E r \in Requests : HandlerThrows(r)
  \/ Tick

\* The response cache in front of a route configured with a ttl of 0.
SpecCacheZero == Init /\ [][NextCacheZero]_vars

RECURSIVE UrlLists(_)
UrlLists(n) ==
  IF n = 0 THEN {<<>>}
  ELSE UrlLists(n - 1) \cup {Append(q, u) : q \in UrlLists(n - 1), u \in {"urlA", "urlC"}}

NextUrls ==
  \/ \E urls \in UrlLists(MaxUrls), retries \in 0 .. MaxTries : GetFinalUrls(urls, retries)
  \/ \E i \in 1 .. MaxUrls, threw \in BOOLEAN : AttemptEnds(i, threw)
  \/ \E i \in 1 .. MaxUrls : DelayEnds(i)
  \/ AllSettled

\* One getFinalUrls call over a batch of urls whose resolutions succeed or
\* throw, in any order.
SpecUrls == Init /\ [][NextUrls]_vars

\* the values of a Cookie or cookie header of the caller
HeaderValues ==
  {Absent, <<>>, <<" ">>, <<"s", "=", "1">>, <<" ", "s", "=", "1", " ">>, <<"t", "=", "2">>}

NextWajik ==
  \E target \in {"sama", "other"}, ref \in {"sama", "other", ""},
     upper \in HeaderValues, lower \in HeaderValues :
    WajikFetch(target, ref, [Cookie |-> upper, cookie |-> lower])

\* wajikFetch calls, one after the other, with every combination of target
\* host, referrer and cookie headers.
SpecWajik == Init /\ [][NextWajik]_vars

\* a step of a call that its own awaits resolve: limit() returns or sleeps
\* on, the attempt is issued, fetch() settles or the attempt's timer fires,
\* the backoff sleep is over
CallStep ==
  \E c \in Calls :
    \/ WakeCallLimit(c)
    \/ Issue(c)
    \/ \E status \in Statuses, sc \in SetCookieChoices : Respond(c, status, sc)
    \/ TimeoutFires(c)
    \/ NetworkError(c)
    \/ WakeBackoff(c)

NextFair ==
  \/ \E c \in Calls, k \in 0 .. MaxRetries, hasSignal \in BOOLEAN, timeoutMs \in TimeoutChoices :
       StartCall(c, "https://h1/a", "", k, hasSignal, timeoutMs)
  \/ CallStep
  \/ \E c \in Calls : Abort(c, "AbortError")
  \/ Tick

\* Calls to one url when time goes on and every await of a call is resolved
\* in the end.
SpecFair == Init /\ [][NextFair]_vars /\ WF_vars(Tick) /\ WF_vars(CallStep)

NextSeq ==
  \/ \E c \in Calls, url \in {"https://h1/a", "https://h2/a"}, site \in SiteOptions,
        timeoutMs \in TimeoutChoices :
       StartCall(c, url, site, 0, FALSE, timeoutMs)
  \/ \E c \in Calls : Issue(c)
  \/ \E c \in Calls, status \in {200, 404}, sc \in SetCookieChoices : Respond(c, status, sc)
  \/ \E c \in Calls : EndCall(c)

\* One call after the other within one millisecond, to either host and with
\* or without a site of its own, each without retries and answered 200 or
\* 404, over the state the calls before it left, while the buckets have
\* tokens.
SpecSeq == Init /\ [][NextSeq]_vars

\* the overrides of the callers of one route: none, a stored name, a name
\* that no response sets, and two names at once
JarOverrides ==
  {<<>>, <<"t", "=", "s">>, <<"u", "=", "1">>,
   <<"t", "=", "s", ";", " ", "s", "=", "t">>}

NextJar ==
  \/ \E h \in Hosts, lines \in SetCookieLists : StoreResponseCookies(h, lines)
  \/ \E h \in Hosts, override \in JarOverrides : BuildHeader(h, override)

\* The cookie jar over the responses of two hosts, read with the overrides of
\* one route.
SpecJar == Init /\ [][NextJar]_vars

NextAgents ==
  \E h \in Hosts, key \in HeaderKeys : BuildHeaders(h, key)

\* The user agents of the attempts to two hosts, of calls with and without a
\* user agent of their own.
SpecAgents == Init /\ [][NextAgents]_vars

\* ================================================================== claims
Last(q) == q[Len(q)]
\* every attempt so far was answered with a retryable status
AllRetryable(q) ==
  \A i \in 1 .. Len(q) : q[i].kind = "response" /\ q[i].status \in RETRY_STATUS
\* the call ended in the attempt whose response it had just received
RaisedOnResponse(cl) ==
  /\ cl.pc = "raised"
  /\ cl.hist # <<>>
  /\ Last(cl.hist).kind = "response"
  /\ cl.attempt = Len(cl.hist)

\* C1: when every attempt is answered with a retryable status (and the
\* caller does not abort), a call with maxRetries = k never returns, never
\* issues more than k+1 HTTP attempts, and has issued exactly k+1 when it
\* raises.
C1_RetryBudgetExact ==
  \A c \in Calls : LET cl == call[c] IN
    (UrlOk(cl.url) /\ ~cl.aborted /\ AllRetryable(cl.hist)) =>
      /\ cl.fetches <= cl.maxRetries + 1
      /\ cl.pc # "returned"
      /\ cl.pc = "raised" => (cl.fetches = cl.maxRetries + 1 /\ Len(cl.hist) = cl.fetches)

\* an upstream that always answered 503, maxRetries = 2: raised after 3 attempts
C1_Witness ==
  \E c \in Calls : LET cl == call[c] IN
    /\ cl.pc = "raised"
    /\ cl.maxRetries = 2
    /\ cl.hist = <<Answered(503), Answered(503), Answered(503)>>
    /\ cl.fetches = 3

\* C2: a call that ends on a not-ok response with the retry budget exhausted
\* raises a FetchFailedError whose attempt is maxRetries+1 and which carries
\* the status, url and site of that response.
C2_RaisesFetchFailedError ==
  \A c \in Calls : LET cl == call[c] IN
    RaisedOnResponse(cl) =>
      /\ cl.err.type = "FetchFailedError"
      /\ cl.err.attempt = cl.maxRetries + 1
      /\ cl.err.status = cl.resp.status
      /\ cl.err.url = cl.url
      /\ cl.err.site = cl.site

\* C3: a first response that is neither ok nor retryable ends the call at
\* once: one HTTP attempt, no backoff sleep, the call has raised.
C3_NonRetryableIsFatal ==
  \A c \in Calls : LET cl == call[c] IN
    (/\ cl.hist # <<>>
     /\ cl.hist[1].kind = "response"
     /\ ~Ok(cl.hist[1].status)
     /\ cl.hist[1].status \notin RETRY_STATUS) =>
      (cl.pc = "raised" /\ cl.fetches = 1 /\ cl.sleeps = <<>>)

\* the cookies of the response are in the host's store
CookiesStored(jar, h, lines) ==
  \A i \in 1 .. Len(lines) :
    LET pair == Trim(Head(SplitOn(lines[i], ";"))) IN
      NameOf(pair) # <<>> =>
        \E j \in 1 .. Len(StoredOf(jar, h)) :
          StoredOf(jar, h)[j] = <<NameOf(pair), ValueOf(pair)>>

\* C4: when a call has returned a response for site S, the response's cookies
\* are stored for the host and S's health record has consecutiveFailures = 0
\* and lastSuccess set.
C4_ReturnRecordsSuccess ==
  \A c \in Calls : LET cl == call[c] IN
    cl.pc = "returned" =>
      /\ CookiesStored(cookieJar, cl.host, cl.resp.setCookie)
      /\ cl.site \in DOMAIN metrics
      /\ metrics[cl.site].consecutiveFailures = 0
      /\ metrics[cl.site].lastSuccess # NoTime

\* C5: answered 429, 429, 200 with maxRetries >= 2, the call has returned the
\* 200 response after exactly 3 attempts and 2 backoff sleeps, the second
\* longer than the first, and has recorded no failure for its site.
C5_RetryThenSuccess ==
  \A c \in Calls : LET cl == call[c] IN
    (cl.maxRetries >= 2 /\ cl.hist = <<Answered(429), Answered(429), Answered(200)>>) =>
      /\ cl.pc = "returned"
      /\ cl.resp.status = 200
      /\ cl.fetches = 3
      /\ Len(cl.sleeps) = 2
      /\ cl.sleeps[2] > cl.sleeps[1]
      /\ cl.fails = 0
      /\ (cl.site \in DOMAIN metrics => metrics[cl.site].consecutiveFailures = 0)

C5_Witness ==
  \E c \in Calls : LET cl == call[c] IN
    /\ cl.pc = "returned"
    /\ cl.hist = <<Answered(429), Answered(429), Answered(200)>>
    /\ Len(cl.sleeps) = 2

\* C6: every attempt n <= maxRetries that ended in a timeout or in a network
\* failure was followed by a sleep of 300*2^(n-1) plus a jitter in [0,150).
C6_TimeoutAndNetworkRetried ==
  \A c \in Calls : LET cl == call[c] IN
    \A n \in 1 .. Len(cl.hist) :
      (cl.hist[n].kind \in {"timeout", "network"} /\ n <= cl.maxRetries) =>
        /\ Len(cl.sleeps) >= n
        /\ cl.sleeps[n] >= 300 * 2 ^ (n - 1)
        /\ cl.sleeps[n] < 300 * 2 ^ (n - 1) + 150

\* C7: once the caller's signal has fired while attempt n was in flight, the
\* call has raised, with no backoff sleep, limit call or HTTP attempt after
\* that attempt.
C7_AbortInFlightNotRetried ==
  \A c \in Calls : LET cl == call[c] IN
    cl.abortedIn = "inflight" =>
      /\ cl.pc = "raised"
      /\ Len(cl.sleeps) = cl.attemptAtAbort - 1
      /\ cl.acquires = cl.attemptAtAbort
      /\ cl.fetches = cl.attemptAtAbort

\* C8: once the caller's signal has fired during a backoff sleep, the call
\* starts no further attempt, and it has failed by the time the clock moves
\* on, at the time of the abort.
C8_AbortDuringBackoffFailsAtOnce ==
  \A c \in Calls : LET cl == call[c] IN
    cl.abortedIn = "backoff" =>
      /\ cl.attempt = cl.attemptAtAbort
      /\ cl.acquires = cl.attemptAtAbort
      /\ now > cl.abortedAt => cl.pc = "raised"
      /\ cl.pc = "raised" => cl.endAt = cl.abortedAt

\* C9: every stored bucket has 0 <= tokens <= burst.
C9_TokensWithinBurst ==
  \A h \in DOMAIN buckets :
    buckets[h].tokens >= 0 /\ buckets[h].tokens <= BurstOf(h) * OneToken

\* a bucket whose refill was cut at burst before the token was taken, and a
\* bucket refilled in place under a sleeping caller
C9_Witness ==
  /\ "h1" \in DOMAIN buckets
  /\ buckets["h1"].tokens = (DefaultBurst - 1) * OneToken
  /\ buckets["h1"].last >= 5 * TickMs
  /\ \E k \in Callers :
       /\ lim[k].st = "waiting"
       /\ lim[k].host = "h2"
       /\ "h2" \in DOMAIN buckets
       /\ buckets["h2"].tokens > 0

\* C10: a limit call that found less than one token returns only after the
\* time needed to refill the missing part, (1 - tokens) / rps, has passed
\* since then; every return found a whole token and took exactly one.
C10_NeverReturnsEarly ==
  \A k \in Callers : LET l == lim[k] IN
    l.st = "done" =>
      /\ l.got >= OneToken
      /\ l.left = l.got - OneToken
      /\ l.waits > 0 => (l.retAt - l.obsAt) * RpsOf(l.host) >= OneToken - l.obsTokens

\* a caller that found the bucket of h2 empty and returned a second later
C10_Witness ==
  \E k \in Callers : LET l == lim[k] IN
    /\ l.st = "done"
    /\ l.waits > 0
    /\ l.obsTokens = 0
    /\ l.retAt = l.obsAt + 2 * TickMs

\* the grants of h's stored bucket, 0 when h has no bucket
GrantsOf(h) == IF h \in DOMAIN served THEN served[h].n ELSE 0
\* h has no bucket, or its bucket was created at this very instant
BackToBack(h) == h \notin DOMAIN served \/ served[h].since = now
\* this step is the synchronous part of a new limit() call of k on host h
NewCall(k, h) == lim[k].st # "waiting" /\ lim'[k] # lim[k] /\ lim'[k].host = h

\* C11: a bucket is created full.  While no time has passed since a bucket's
\* creation it holds burst minus its grants; a call made back to back with
\* the creation returns at once, without a sleep, when fewer than burst calls
\* were granted before it, and otherwise finds no token and sleeps for
\* exactly 1/rps; no sleeping call returns before the time it was short of
\* has passed.
C11_CreatedFull ==
  /\ [](\A h \in DOMAIN served :
         served[h].since = now =>
           /\ served[h].n <= BurstOf(h)
           /\ buckets[h].tokens = (BurstOf(h) - served[h].n) * OneToken)
  /\ [][\A k \in Callers, h \in Hosts :
         /\ (NewCall(k, h) /\ BackToBack(h) /\ GrantsOf(h) < BurstOf(h)) =>
              (lim'[k].st = "done" /\ lim'[k].waits = 0 /\ lim'[k].retAt = now)
         /\ (NewCall(k, h) /\ BackToBack(h) /\ GrantsOf(h) >= BurstOf(h)) =>
              /\ lim'[k].st = "waiting"
              /\ lim'[k].obsTokens = 0
              /\ lim'[k].wakeAt = now + OneToken \div RpsOf(h)
         /\ (lim[k].st = "waiting" /\ lim'[k].st = "done" /\ lim[k].obsTokens = 0) =>
              lim'[k].retAt >= lim[k].obsAt + OneToken \div RpsOf(lim[k].host)]_vars

\* rps = 1, burst = 1: the first call returned at once at the creation of the
\* bucket, the second, made at the same instant, 1000 ms later
C11_Witness ==
  /\ "h2" \in DOMAIN served
  /\ served["h2"].n = 2
  /\ \E k1, k2 \in Callers :
       /\ lim[k1].st = "done" /\ lim[k1].host = "h2" /\ lim[k1].waits = 0
       /\ lim[k1].retAt = served["h2"].since
       /\ lim[k2].st = "done" /\ lim[k2].host = "h2" /\ lim[k2].waits = 1
       /\ lim[k2].obsAt = served["h2"].since
       /\ lim[k2].retAt = served["h2"].since + 2 * TickMs

\* C12: no lost update.  The calls that have returned from a bucket by now
\* never exceed burst + rps * (time since its creation), and every return
\* took its own token: the tokens left plus the tokens granted never exceed
\* what the bucket started with and was refilled with.
C12_NoLostUpdate ==
  \A h \in DOMAIN served :
    /\ h \in DOMAIN buckets
    /\ served[h].n * OneToken <=
         BurstOf(h) * OneToken + RpsOf(h) * (now - served[h].since)
    /\ buckets[h].tokens + served[h].n * OneToken <=
         BurstOf(h) * OneToken + RpsOf(h) * (buckets[h].last - served[h].since)

\* two callers that were both asleep on h2 have both returned, one token each:
\* 3 returns in the 2000 ms since the bucket's creation
C12_Witness ==
  /\ "h2" \in DOMAIN served
  /\ served["h2"].n = 3
  /\ now = served["h2"].since + 4 * TickMs
  /\ \A k \in Callers :
       lim[k].st = "done" /\ lim[k].host = "h2" /\ lim[k].waits >= 1

\* a trimmed part that names a cookie
IsCookie(part) == part # <<>> /\ NameOf(part) # <<>>
\* the cookies <<name, value>> that a Cookie string gives, in order
CookiePairs(cookieString) ==
  LET parts == SplitOn(cookieString, ";")
      named == SelectSeq([i \in 1 .. Len(parts) |-> Trim(parts[i])], IsCookie) IN
    [i \in 1 .. Len(named) |-> <<NameOf(named[i]), ValueOf(named[i])>>]
NamesOf(pairs) == {pairs[i][1] : i \in 1 .. Len(pairs)}
\* the value that the last cookie of that name gives
LastValue(pairs, name) ==
  pairs[CHOOSE i \in 1 .. Len(pairs) :
          pairs[i][1] = name /\ \A j \in i + 1 .. Len(pairs) : pairs[j][1] # name][2]

\* C13: the header built for a host is the one built from that host's stored
\* cookies and the override alone (no other host's cookies, nothing else), and
\* for every cookie name that is both stored and in the override the header
\* has exactly one cookie of that name, with the value the override gives it
\* (the last one when the override names it twice).
C13_OverrideWins ==
  built.done =>
    LET over == CookiePairs(built.override)
        sent == CookiePairs(built.out) IN
      /\ built.out = BuildCookieHeader(SetMap(EmptyMap, built.host, built.stored),
                                       built.host, built.override)
      /\ \A name \in NamesOf(built.stored) \cap NamesOf(over) :
           /\ Cardinality({i \in 1 .. Len(sent) : sent[i][1] = name}) = 1
           /\ \A i \in 1 .. Len(sent) : sent[i][1] = name => sent[i][2] = LastValue(over, name)

\* stored s=1 and t=2, override "s=t": the header is "s=t; t=2"
C13_Witness ==
  /\ built.done
  /\ built.stored = << << <<"s">>, <<"1">> >>, << <<"t">>, <<"2">> >> >>
  /\ built.override = <<"s", "=", "t">>
  /\ built.out = <<"s", "=", "t", ";", " ", "t", "=", "2">>
  /\ \E h \in Hosts : h # built.host /\ StoredOf(cookieJar, h) # <<>>

\* C14: once a response with Set-Cookie lines has been received, whatever its
\* status, the host's store holds each well-formed cookie of the response
\* with the value the response gave it.
C14_StoredOnEveryResponse ==
  \A c \in Calls : LET cl == call[c] IN
    cl.resp.setCookie # <<>> => CookiesStored(cookieJar, cl.host, cl.resp.setCookie)

\* C16: a call that has raised an error to its caller (its URL being well
\* formed, so that it has a site) has recorded a failure for its site, at the
\* time it raised.
C16_TerminalFailureRecorded ==
  \A c \in Calls : LET cl == call[c] IN
    (cl.pc = "raised" /\ UrlOk(cl.url)) =>
      /\ cl.fails >= 1
      /\ cl.site \in DOMAIN metrics
      /\ metrics[cl.site].consecutiveFailures >= 1
      /\ metrics[cl.site].lastError.at = cl.endAt

\* C15: for every site, consecutiveFailures is the number of
\* recordScrapeFailure calls since the site's last recordScrapeSuccess (or
\* since its creation); after a success it is 0 and lastSuccess is the time
\* of the success; lastError is what the last recordScrapeFailure call
\* recorded, so a success leaves it as it was.
C15_CountsFailuresSinceSuccess ==
  /\ DOMAIN tally \subseteq DOMAIN metrics
  /\ \A site \in DOMAIN metrics :
       /\ metrics[site].consecutiveFailures = TallyOf(site).failures
       /\ TallyOf(site).last = "failure" =>
            metrics[site].consecutiveFailures = TallyOf(site).failuresBefore + 1
       /\ metrics[site].lastError = TallyOf(site).error
       /\ metrics[site].lastSuccess = TallyOf(site).successAt
       /\ TallyOf(site).last = "success" =>
            /\ metrics[site].consecutiveFailures = 0
            /\ metrics[site].lastSuccess # NoTime

\* a site that failed three times in a row and then succeeded, next to a site
\* that stands at three failures
C15_Witness ==
  \E s1, s2 \in HealthSites :
    /\ s1 \in DOMAIN tally /\ s2 \in DOMAIN tally
    /\ tally[s1].last = "success" /\ tally[s1].failuresBefore = 3
    /\ metrics[s1].consecutiveFailures = 0
    /\ metrics[s1].lastError # NoError
    /\ metrics[s1].lastSuccess > metrics[s1].lastError.at
    /\ tally[s2].last = "failure" /\ metrics[s2].consecutiveFailures = 3

\* C17: whatever a reader writes into a snapshot it got, the live records are
\* what the record and get calls alone made them.
C17_SnapshotsAreCopies == metrics = pristine

\* C18 as stated: a request that arrives while the last store for its key, of
\* an ok payload, has not expired is answered from the cache with the stored
\* payload, and its handler is not invoked.
C18_HitBeforeExpiry ==
  /\ \A r \in Requests : req[r].pc = "handling" => ~req[r].sawStore
  /\ last.sawStore => (last.served = "cache" /\ last.out = last.sawValue.body)

\* C18, amended: a request that arrives while the last store for its key, of
\* an ok payload, has not expired and its entry is still in the cache (the
\* max-entry bound has not evicted it) is answered from the cache with the
\* stored payload, and its handler is not invoked.
C18_HitWhileCached ==
  /\ \A r \in Requests : req[r].pc = "handling" => ~(req[r].sawStore /\ req[r].inCache)
  /\ (last.sawStore /\ last.inCache) => (last.served = "cache" /\ last.out = last.sawValue.body)

\* the third request, for "/a", answered with the payload stored for "/a"
C18_Witness ==
  /\ last.key = "/a" /\ last.seq = 3
  /\ last.served = "cache"
  /\ last.sawStore /\ last.inCache
  /\ last.out = OkTrue("d2")
  /\ \A r \in Requests : req[r].pc = "idle"

C21_ErrorsPassUncached ==
  /\ [](/\ last.served = "error" => (last.out = HandlerError /\ ~last.didStore)
        /\ (last.served = "handler" /\ last.result.status = ErrorStatus) =>
             (~last.didStore /\ last.out = last.result.body))
  /\ [][/\ (last' # last /\ last'.served \in {"error", "handler"}
              /\ (last'.served = "handler" => last'.result.status = ErrorStatus)) =>
             (cache' = cache /\ stores' = stores)
        /\ (/\ arrivals' = arrivals + 1
            /\ last.served = "error"
            /\ LiveAt(cache, last.key, now) = {}) =>
             ~(last'.seq = arrivals' /\ last'.key = last.key /\ last'.served = "cache")]_vars

\* the handler of "/a" threw: the request ended with the error, nothing is
\* cached for "/a", and the request for "/a" that arrived afterwards is with
\* the handler
C21_Witness ==
  /\ last.key = "/a" /\ last.served = "error" /\ last.out = HandlerError
  /\ ~last.didStore
  /\ LiveAt(cache, "/a", now) = {}
  /\ \E r \in Requests :
       req[r].pc = "handling" /\ req[r].key = "/a" /\ req[r].seq > last.endedBy

\* the time from which the claim has an entry expired: ttl minutes after its
\* store, one minute (the default) for a route without a ttl
ExpiryOf(e) == e.at + (IF TtlOf(e.key) # 0 THEN 60 * TtlOf(e.key) ELSE DefaultTTL)

\* C22: a request that is answered from the cache arrives before the expiry,
\* ttl minutes after the store, of an entry for its key, and is answered with
\* the value of that entry; a request that arrives when every entry for its
\* key has reached its expiry is not answered from the cache.
C22_ExpiredNeverServed ==
  [][arrivals' = arrivals + 1 =>
       /\ (last'.seq = arrivals' /\ last'.served = "cache") =>
            \E i \in 1 .. Len(cache) :
              /\ cache[i].key = last'.key
              /\ cache[i].value.body = last'.out
              /\ now < ExpiryOf(cache[i])
       /\ \A key \in Keys :
            (\A i \in 1 .. Len(cache) : cache[i].key = key => now >= ExpiryOf(cache[i])) =>
              ~(last'.seq = arrivals' /\ last'.key = key /\ last'.served = "cache")]_vars

\* "/a" (ttl 1500 ms) was stored once; the second request was answered from
\* the cache; the third, arrived when the store had expired, is with the
\* handler
C22_Witness ==
  /\ "/a" \in DOMAIN stores /\ stores["/a"].origin = Answer(200, OkTrue("d1"))
  /\ now >= 1500
  /\ last.key = "/a" /\ last.seq = 2 /\ last.served = "cache" /\ last.out = OkTrue("d1")
  /\ \E r \in Requests :
       /\ req[r].pc = "handling" /\ req[r].key = "/a" /\ req[r].seq = 3
       /\ ~req[r].sawStore /\ ~req[r].inCache

\* C23: on a route configured with a ttl of 0 the result of the handler is
\* not stored, an ok payload included, and no request is answered from the
\* cache.
C23_ZeroTtlNotStored ==
  TtlOf(last.key) = 0 /\ last.key # "" =>
    /\ last.served # "cache"
    /\ (last.served = "handler" /\ last.result.body.ok = "true") => ~last.didStore

\* C29: every request that arrives either finds a live entry for its key or
\* goes to the handler itself, also while another request for the key is
\* with the handler; every request whose handler answers a successful result
\* stores it, whether or not another request stored the key meanwhile; and
\* after a store the one entry of the key is that of the request that stored
\* last.
C29_MissesNotCoalesced ==
  /\ [](/\ last.served = "handler"
         /\ ResponseTypeOf(last.key) = "json"
         /\ last.result.status < 399
         /\ last.result.body.ok = "true" => last.didStore)
  /\ [][/\ arrivals' = arrivals + 1 =>
             \/ /\ last'.seq = arrivals' /\ last'.served = "cache"
                /\ LiveAt(cache, last'.key, now) # {}
             \/ \E r \in Requests :
                  /\ req[r].pc = "idle" /\ req'[r].pc = "handling"
                  /\ req'[r].seq = arrivals'
                  /\ LiveAt(cache, req'[r].key, now) = {}
        /\ (last' # last /\ last'.served = "handler" /\ last'.didStore) =>
             \E i \in 1 .. Len(cache') :
               /\ cache'[i].key = last'.key
               /\ cache'[i].origin = last'.result
               /\ cache'[i].value.body = last'.result.body
               /\ \A j \in 1 .. Len(cache') : cache'[j].key = last'.key => j = i]_vars

\* two requests for "/a" arrived before any store; the second to end, which
\* had arrived first, stored d1 over what was there: the entry is d1
C29_Witness ==
  /\ arrivals = 2
  /\ \A r \in Requests : req[r].pc = "idle"
  /\ last.key = "/a" /\ last.seq = 1 /\ last.endedBy = 2
  /\ last.served = "handler" /\ last.didStore /\ ~last.sawStore
  /\ last.result = Answer(200, OkTrue("d1"))
  /\ Len(cache) = 1 /\ cache[1].key = "/a" /\ cache[1].origin = Answer(200, OkTrue("d1"))

\* C24: the array getFinalUrls returns has one entry per url, in the order
\* of the urls; the entry of a url whose resolution succeeded on one of its
\* attempts is the resolved url, that of a url whose attempts, retries of
\* them, all threw is the empty string, whatever became of the other urls;
\* no request makes more than retries attempts, and the call returns only
\* when every request is settled.
C24_PartialFailureIsolated ==
  /\ \A i \in 1 .. Len(batch.requests) :
       batch.requests[i].attempt <= IF batch.retries < 1 THEN 1 ELSE batch.retries
  /\ batch.pc = "returned" =>
       /\ Len(batch.result) = Len(batch.urls)
       /\ \A i \in 1 .. Len(batch.urls) : LET request == batch.requests[i] IN
            /\ (batch.retries >= 1 /\ request.thrown < batch.retries) =>
                 (request.thrown = request.attempt - 1
                    /\ batch.result[i] = FinalUrlOf(batch.urls[i]))
            /\ (batch.retries >= 1 /\ request.thrown = batch.retries) =>
                 batch.result[i] = ""

\* getFinalUrls(["urlA", "urlC"], ref, {retries: 2}): urlC threw twice,
\* urlA was resolved on its second attempt, and the call returned ["urlB", ""]
C24_Witness ==
  /\ batch.pc = "returned"
  /\ batch.urls = <<"urlA", "urlC">> /\ batch.retries = 2
  /\ batch.requests[1].thrown = 1 /\ batch.requests[2].thrown = 2
  /\ batch.result = <<"urlB", "">>

\* C25: the headers wajikFetch passes to fetchResponse hold neither Cookie
\* nor cookie, and the cookies option is the cookie string configured for the
\* target host followed by the caller's cookie header, joined with "; ", a
\* part that is absent (or blank) left out, undefined when both are.
C25_CookiesOnlyByOption ==
  passed.called =>
    /\ passed.options.headers.Cookie = Absent
    /\ passed.options.headers.cookie = Absent
    /\ passed.options.cookies =
         JoinCookies(HostCookies(passed.target),
                     IF passed.headers.Cookie # Absent THEN passed.headers.Cookie
                     ELSE passed.headers.cookie)

\* C26: in every call the HTTP attempts issued are as many as the attempts
\* that have ended, plus the one in flight if there is one; every attempt
\* issued had its own limit call return before (attempts issued <= tokens the
\* call took <= turns of the loop); an attempt is issued only when the one
\* before has ended and the limit call of its turn has returned; and a new
\* turn of the loop starts only from a backoff sleep that has elapsed.
C26_AttemptsSequentialAndLimited ==
  /\ [](\A c \in Calls : LET cl == call[c] IN
          /\ cl.fetches = Len(cl.hist) + (IF cl.pc = "inflight" THEN 1 ELSE 0)
          /\ cl.fetches <= cl.acquires /\ cl.acquires <= cl.attempt
          /\ cl.acquires = cl.attempt - (IF cl.pc = "limit" THEN 1 ELSE 0)
          /\ cl.pc \in {"inflight", "backoff", "returned"} => cl.fetches = cl.attempt
          /\ Len(cl.sleeps) = cl.attempt - (IF cl.pc = "backoff" THEN 0 ELSE 1)
               \/ cl.attempt = 0)
  /\ [][\A c \in Calls :
          /\ call'[c].fetches # call[c].fetches =>
               /\ call'[c].fetches = call[c].fetches + 1
               /\ call[c].pc = "acquired" /\ call'[c].pc = "inflight"
               /\ Len(call[c].hist) = call[c].fetches
          /\ (call'[c].attempt # call[c].attempt /\ call[c].attempt >= 1) =>
               /\ call'[c].attempt = call[c].attempt + 1
               /\ call[c].pc = "backoff" /\ now >= call[c].wakeAt
               /\ Len(call[c].hist) = call[c].attempt]_vars

\* the third attempt of a call is in flight: two attempts have ended, two
\* backoff sleeps are over and the call took three tokens
C26_Witness ==
  \E c \in Calls : LET cl == call[c] IN
    /\ cl.pc = "inflight" /\ cl.attempt = 3
    /\ cl.fetches = 3 /\ cl.acquires = 3
    /\ Len(cl.hist) = 2 /\ Len(cl.sleeps) = 2
    /\ now >= cl.sleeps[1] + cl.sleeps[2]

\* C27: the sleep that follows the n-th attempt of a call, when that attempt
\* was answered with a retryable status, is at least 500 * 2^(n-1) ms and
\* less than 250 ms more, n being at most maxRetries; of two such sleeps of
\* one call the later one is the longer.
C27_ResponseBackoffGrows ==
  \A c \in Calls : LET cl == call[c] IN
    \A n \in 1 .. Len(cl.sleeps) :
      (cl.hist[n].kind = "response" /\ cl.hist[n].status \in RETRY_STATUS) =>
        /\ n <= cl.maxRetries
        /\ 500 * 2 ^ (n - 1) <= cl.sleeps[n]
        /\ cl.sleeps[n] < 500 * 2 ^ (n - 1) + 250
        /\ \A m \in 1 .. n - 1 :
             (cl.hist[m].kind = "response" /\ cl.hist[m].status \in RETRY_STATUS) =>
               cl.sleeps[m] < cl.sleeps[n]

\* a call answered 503 and then 429: it slept the longest first sleep, 749
\* ms, and then the shortest second one, 1000 ms
C27_Witness ==
  \E c \in Calls : LET cl == call[c] IN
    /\ Len(cl.hist) >= 2 /\ Len(cl.sleeps) = 2
    /\ cl.hist[1] = Answered(503) /\ cl.hist[2] = Answered(429)
    /\ cl.sleeps = <<749, 1000>>

\* how far a call is from its end: the turns of the loop it has left, and
\* within a turn the awaits it has left
StepsLeft(cl) ==
  IF cl.pc \in {"returned", "raised"} THEN 0
  ELSE 4 * (cl.maxRetries + 1 - cl.attempt)
       + (CASE cl.pc = "limit" -> 4 [] cl.pc = "acquired" -> 3
            [] cl.pc = "inflight" -> 2 [] OTHER -> 1)

\* C28: a call makes no more than maxRetries + 1 turns of its loop and HTTP
\* attempts; every step that moves it brings it nearer to its end, and once
\* ended it stays as it is; and, each await being resolved in the end, a call
\* that has started returns or raises (or the clock of the model has run out
\* before it could).
C28_CallTerminates ==
  /\ [](\A c \in Calls :
          /\ call[c].attempt <= call[c].maxRetries + 1
          /\ call[c].fetches <= call[c].maxRetries + 1)
  /\ [][\A c \in Calls :
          /\ call[c].pc \in {"returned", "raised"} => call'[c] = call[c]
          /\ (call[c].pc # "idle" /\ (call'[c].pc # call[c].pc
                                       \/ call'[c].attempt # call[c].attempt)) =>
               StepsLeft(call'[c]) < StepsLeft(call[c])]_vars
  /\ \A c \in Calls :
       (call[c].pc # "idle") ~>
         (call[c].pc \in {"returned", "raised"} \/ now = MaxTicks * TickMs)

\* a call with maxRetries = 2 that timed out, was answered 503 and then 404:
\* it raised on its third attempt
C28_Witness ==
  \E c \in Calls : LET cl == call[c] IN
    /\ cl.pc = "raised" /\ cl.maxRetries = 2
    /\ cl.attempt = 3 /\ cl.fetches = 3
    /\ cl.hist = <<Failed("timeout"), Answered(503), Answered(404)>>

\* C30: resetRateLimiter(host) takes the bucket of host out of the map and
\* leaves every other bucket, and every suspended caller, as it is;
\* resetRateLimiter() leaves no bucket; and a limit call (a new one, or the
\* one a suspended caller makes when it wakes) on a host that has no bucket
\* finds burst tokens and returns at once, leaving burst - 1.
C30_ResetFreesHost ==
  [][/\ \A h \in Hosts : ResetHost(h) =>
          /\ DOMAIN buckets' = DOMAIN buckets \ {h}
          /\ \A g \in DOMAIN buckets' : buckets'[g] = buckets[g]
          /\ lim' = lim
     /\ ResetAll => (DOMAIN buckets' = {} /\ lim' = lim)
     /\ \A k \in Clients :
          (lim'[k] # lim[k] /\ lim'[k].host \notin DOMAIN buckets) =>
            /\ lim'[k].st = "done" /\ lim'[k].retAt = now
            /\ lim'[k].got = BurstOf(lim'[k].host) * OneToken
            /\ lim[k].st # "waiting" => lim'[k].waits = 0
            /\ buckets'[lim'[k].host].tokens = (BurstOf(lim'[k].host) - 1) * OneToken]_vars

\* h2 (burst 1) was reset while a caller was asleep on it: the other caller's
\* limit call has just found the full bucket and returned, the first one is
\* still asleep, and the bucket of h1 is as it was
C30_Witness ==
  \E k, j \in Callers :
    /\ lim[k].st = "done" /\ lim[k].host = "h2" /\ lim[k].retAt = now /\ lim[k].waits = 0
    /\ lim[k].got = BurstOf("h2") * OneToken
    /\ lim[j].st = "waiting" /\ lim[j].host = "h2" /\ lim[j].wakeAt > now
    /\ "h2" \in DOMAIN served /\ served["h2"].since = now /\ served["h2"].n = 1
    /\ lim[j].obsAt < now
    /\ "h1" \in DOMAIN buckets

\* the value a store holds for a name
StoredValue(store, name) == LastValue(store, name)
\* the cookies that storeCookies reads from the lines of a response
CookiesOfLines(lines) == UpsertCookies(<<>>, lines \o SplitFallback(Join(lines, <<",", " ">>)))

\* C31: no step removes a cookie name from a host's store, and a stored value
\* changes only in a storeCookies call for the host whose response names the
\* cookie, to the value that response gives it; the header built for a host
\* holds every stored name, with the stored value or, when the override names
\* it, with the override's value.
C31_CookiesNeverExpire ==
  /\ [](built.done =>
          LET over == CookiePairs(built.override)
              sent == CookiePairs(built.out) IN
            \A name \in NamesOf(built.stored) :
              /\ name \in NamesOf(sent)
              /\ LastValue(sent, name) =
                   IF name \in NamesOf(over) THEN LastValue(over, name)
                   ELSE StoredValue(built.stored, name))
  /\ [][cookieJar' # cookieJar =>
        \A h \in Hosts :
          \A name \in NamesOf(StoredOf(cookieJar, h)) :
            /\ name \in NamesOf(StoredOf(cookieJar', h))
            /\ \/ StoredValue(cookieJar'[h], name) = StoredValue(cookieJar[h], name)
               \/ \E lines \in SetCookieLists :
                    /\ StoreResponseCookies(h, lines)
                    /\ name \in NamesOf(CookiesOfLines(lines))
                    /\ StoredValue(cookieJar'[h], name) =
                         StoredValue(CookiesOfLines(lines), name)]_vars

\* s was stored as 1 and then as 2, t was stored; the header built with the
\* override "t=s" holds s=2 and t=s
C31_Witness ==
  /\ built.done
  /\ built.stored = << << <<"s">>, <<"2">> >>, << <<"t">>, <<"a", "=", "b">> >> >>
  /\ built.override = <<"t", "=", "s">>
  /\ built.out = <<"s", "=", "2", ";", " ", "t", "=", "s">>

\* an entry of the history that chooseUserAgent gave
IsChosen(e) == e # CallerAgent
\* the pool entries used by the attempts to h that took their agent from it
ChosenFor(h) == SelectSeq(agents[h], IsChosen)

\* C32: the attempts to a host that take their agent from the pool (their
\* headers hold no "User-Agent") use consecutive entries of the pool, modulo
\* its size, so any 5 consecutive ones use 5 distinct entries; the host's
\* index is the entry after the last one used; an attempt to a host leaves
\* the index of every other host as it was.
C32_RoundRobinPerHost ==
  /\ [](\A h \in Hosts : LET q == ChosenFor(h) IN
          /\ \A i \in 1 .. Len(q) - 1 : q[i + 1] = (q[i] + 1) % UserAgentCount
          /\ \A i \in 1 .. Len(q) - (UserAgentCount - 1) :
               Cardinality({q[j] : j \in i .. i + UserAgentCount - 1}) = UserAgentCount
          /\ \A i \in 1 .. Len(q) : q[i] \in 0 .. UserAgentCount - 1
          /\ h \in DOMAIN uaState <=> q # <<>>
          /\ q # <<>> => uaState[h] = (Last(q) + 1) % UserAgentCount)
  /\ [][\A h \in Hosts : agents'[h] # agents[h] =>
          \A g \in Hosts \ {h} :
            /\ g \in DOMAIN uaState' <=> g \in DOMAIN uaState
            /\ g \in DOMAIN uaState => uaState'[g] = uaState[g]]_vars

\* six attempts to h1 from the pool, which began at its last entry, the sixth
\* with the agent of the first; among them one attempt to h2, which began at
\* the first entry
C32_Witness ==
  /\ Len(ChosenFor("h1")) = UserAgentCount + 1
  /\ ChosenFor("h1")[UserAgentCount + 1] = ChosenFor("h1")[1]
  /\ ChosenFor("h1")[1] = UserAgentCount - 1
  /\ ChosenFor("h2") = <<0>>
  /\ uaState["h2"] = 1

\* C33: a call with a malformed URL has raised a ScraperError, with no token
\* taken from the limiter, no HTTP attempt and no sleep; an invalid redirect
\* target makes getFinalUrl raise a ScraperError at once.
C33_UnrecoverableRaisedAtOnce ==
  /\ \A c \in Calls : LET cl == call[c] IN
       (cl.pc # "idle" /\ ~UrlOk(cl.url)) =>
         /\ cl.pc = "raised"
         /\ cl.err.type = "ScraperError"
         /\ cl.acquires = 0 /\ cl.fetches = 0 /\ cl.sleeps = <<>>
         /\ lim[c] = IdleLim /\ buckets = EmptyMap
  /\ \A location \in Locations :
       ~LocationOk(location) =>
         LET out == RedirectOutcome(location, "https://h1/a", "https://h1/a", "h1") IN
           out.kind = "raised" /\ out.err.type = "ScraperError"

\* C34: a call that has raised (its URL being well formed) has increased
\* consecutiveFailures of its site by exactly 1, and a call that has not
\* raised, whatever attempts of it were retried, has left the health records
\* as they were.
C34_FailedFetchCountsOnce ==
  \A c \in Calls : LET cl == call[c] IN
    /\ (cl.pc = "raised" /\ UrlOk(cl.url)) =>
         /\ cl.fails = 1
         /\ cl.site \in DOMAIN metrics
         /\ metrics[cl.site].consecutiveFailures = 1
    /\ cl.pc # "raised" => (cl.fails = 0 /\ metrics = EmptyMap)

\* the call ended at line 190: throw new ScraperError("Request aborted", ...)
RaisedAsAborted(cl) ==
  cl.pc = "raised" /\ cl.err.message = Msg("Request aborted", NoStatus)

\* C35: a call whose signal has fired issues no further HTTP attempt, and
\* when the signal fired outside an attempt in flight the call does not end
\* in another way; when it has raised "Request aborted" it is a
\* ScraperError raised with the signal aborted, in an attempt that issued no
\* HTTP call, with the attempt's timer cleared and no abort listener left,
\* and after the attempt's limit call has returned with one token taken from
\* the host's bucket.
C35_AbortedAtStartOfAttempt ==
  \A c \in Calls : LET cl == call[c] IN
    /\ cl.aborted =>
         /\ cl.pc \in {"limit", "acquired", "backoff", "raised"}
         /\ cl.fetches = IF cl.abortedIn \in {"backoff", "inflight"} THEN cl.attemptAtAbort
                         ELSE cl.attemptAtAbort - 1
         /\ (cl.pc = "raised" /\ cl.abortedIn # "inflight") => RaisedAsAborted(cl)
    /\ RaisedAsAborted(cl) =>
         /\ cl.hasSignal /\ cl.aborted
         /\ cl.err.type = "ScraperError"
         /\ cl.err.site = cl.site /\ cl.err.url = cl.url
         /\ cl.fetches = cl.attempt - 1
         /\ Len(cl.hist) = cl.fetches
         /\ cl.timerAt = NoTime /\ ~cl.listener
         /\ cl.acquires = cl.attempt
         /\ lim[c].st = "done" /\ lim[c].host = cl.host
         /\ lim[c].left = lim[c].got - OneToken

\* the signal fired during the backoff after attempt 1: attempt 2 took its
\* token and raised without a second HTTP call
C35_Witness ==
  \E c \in Calls : LET cl == call[c] IN
    /\ RaisedAsAborted(cl)
    /\ cl.abortedIn = "backoff"
    /\ cl.attempt = 2 /\ cl.acquires = 2 /\ cl.fetches = 1
    /\ cl.endAt > cl.abortedAt

\* the entry of key k is the same in the maps m and n: absent, or equal
SameAt(m, n, k) ==
  /\ k \in DOMAIN n <=> k \in DOMAIN m
  /\ k \in DOMAIN m => n[k] = m[k]

\* C36: a step of a fetchResponse call for host A and site A leaves the
\* bucket, the cookies and the user-agent index of every other host, and the
\* health record of every other site, as they were.
C36_OtherKeysUnchanged ==
  [][\A c \in Calls :
       (call'[c] # call[c] /\ call'[c].pc # "idle") =>
         /\ \A g \in Hosts \ {call'[c].host} :
              /\ SameAt(buckets, buckets', g)
              /\ SameAt(cookieJar, cookieJar', g)
              /\ SameAt(uaState, uaState', g)
         /\ \A s \in Sites \ {call'[c].site} : SameAt(metrics, metrics', s)]_vars

\* a call to h2 under its own site has stored cookies and recorded nothing,
\* after calls that left h1 a bucket, cookies, a user-agent index and a
\* failure
C36_Witness ==
  \E c \in Calls : LET cl == call[c] IN
    /\ cl.pc = "returned" /\ cl.host = "h2" /\ cl.site = "h2"
    /\ "h2" \in DOMAIN cookieJar /\ "h2" \in DOMAIN buckets /\ "h2" \in DOMAIN uaState
    /\ "h1" \in DOMAIN buckets /\ "h1" \in DOMAIN cookieJar /\ "h1" \in DOMAIN uaState
    /\ "h1" \in DOMAIN metrics /\ "h2" \notin DOMAIN metrics

\* the bucket of the host is as the first sleep of k's call left it
Untouched(k) ==
  /\ lim[k].host \in DOMAIN buckets
  /\ buckets[lim[k].host] = [tokens |-> lim[k].obsTokens, last |-> lim[k].obsAt]

\* C37: when the first sleep of a limit call ends and no other call has
\* touched the host's bucket since the call went to sleep, the call returns
\* in that step, after exactly one wait, with one token taken.  (With other
\* callers on the host there is no order: the witness is a caller that waits
\* a second time while one that called later has returned.)
C37_OneWaitWithoutCompetitor ==
  [][\A k \in Callers :
       (lim[k].st = "waiting" /\ lim[k].waits = 1 /\ lim'[k] # lim[k] /\ Untouched(k)) =>
         /\ lim'[k].st = "done"
         /\ lim'[k].waits = 1
         /\ lim'[k].retAt >= lim[k].wakeAt
         /\ lim'[k].left = lim'[k].got - OneToken]_vars

\* k went to sleep first, j called later, slept once and has returned with
\* the token, and k, woken after it, sleeps for the second time
C37_Witness ==
  \E k \in Callers : \E j \in Callers \ {k} :
    /\ lim[k].st = "waiting" /\ lim[k].waits = 2
    /\ lim[j].st = "done" /\ lim[j].waits = 1 /\ lim[j].host = lim[k].host
    /\ lim[j].obsAt > lim[k].obsAt
    /\ lim[j].retAt >= lim[k].wakeAt - WaitMs(0, RpsOf(lim[k].host))
    /\ lim[k].wakeAt > lim[j].retAt

\* the record that getOrCreate stores for a new site
FreshRecord == [lastSuccess |-> NoTime, lastError |-> NoError, consecutiveFailures |-> 0]

\* C38: getScrapeHealth(site) for a site without a record stores a record
\* with consecutiveFailures = 0 and no lastSuccess or lastError, and changes
\* no other record; for a site with a record it changes nothing;
\* getAllScrapeHealth changes nothing and returns the records of all sites
\* that have one; no step removes a record, so a site once read is in every
\* later getAllScrapeHealth result.
C38_ReadingCreatesRecord ==
  [][/\ \A site \in HealthSites :
          GetScrapeHealth(site) =>
            /\ metrics' = IF site \in DOMAIN metrics THEN metrics
                          ELSE SetMap(metrics, site, FreshRecord)
            /\ DOMAIN snap'.recs = {site}
            /\ snap'.recs[site] = metrics'[site]
     /\ GetAllScrapeHealth =>
          /\ metrics' = metrics
          /\ DOMAIN snap'.recs = DOMAIN metrics
          /\ \A site \in DOMAIN metrics : snap'.recs[site] = metrics[site]
     /\ DOMAIN metrics \subseteq DOMAIN metrics']_vars

\* getAllScrapeHealth has returned two sites, one of them with a recorded
\* failure and one that was only ever read
C38_Witness ==
  /\ snap.held
  /\ DOMAIN snap.recs = HealthSites
  /\ \E site \in HealthSites :
       /\ site \notin DOMAIN tally
       /\ snap.recs[site] = FreshRecord
       /\ metrics[site] = FreshRecord
  /\ \E site \in HealthSites : snap.recs[site].consecutiveFailures >= 1

====
